---- MODULE Spec2Model ----
(***************************************************************************)
(* Relational-algebra evaluator of cozo-core (query/ra.rs): the RA tree,   *)
(* its planning passes (filter construction, eliminate_temp_vars,          *)
(* fill_binding_indices_and_compile) and its tuple streams.                *)
(* With it: the skip scan of the sqlite storage (storage/sqlite.rs), the   *)
(* imperative programs (runtime/imperative.rs), the locks both take, the   *)
(* connection pool of the storage, and dijkstra                            *)
(* (algo/shortest_path_dijkstra.rs).                                       *)
(***************************************************************************)
EXTENDS Integers, Sequences, FiniteSets, TLC

VARIABLES
    tree,       \* the RelAlgebra value being built, planned and iterated
    stage,      \* "build" | "eliminated" | "compiled" | "failed" | "iterated"
    used,       \* the `used` set handed to eliminate_temp_vars
    elimRuns,   \* how many times eliminate_temp_vars has run on `tree`
    prevTree,   \* the tree before the latest construction call
    lastOp,     \* the latest call and its arguments
    nOps,       \* number of construction calls made so far
    deltaRule,  \* the delta_rule argument of iter ("none" for None)
    beforeElim, \* the tree before the latest eliminate_temp_vars call
    out,        \* the stream produced by iter
    scanLog,    \* what the closure of the root's prefix join did for each left tuple
    skipIter,   \* a SkipIter of storage/sqlite.rs and the table its statement reads
    skipOut,    \* the tuples the SkipIter has returned, and whether it is exhausted
    frames,     \* the call stack of execute_imperative_stmts: one frame per block
    poison,     \* the Poison flag of the running imperative program
    status,     \* how far execute_imperative is, its error and its result
    tx,         \* the session transaction of the program: its view of the data
    db,         \* the committed data
    callers,    \* per thread: how far its execute_imperative call is, and its locks
    relation_locks, \* the lock of each relation name: who holds it shared, who exclusively
    lock,       \* SqliteStorage.lock: who holds it shared, who exclusively
    closures,   \* per thread: the del_range closure it has spawned
    pool,       \* SqliteStorage.pool: the connections put back, last one on top
    sqliteTx,   \* per thread: the SqliteTx it has, or what is left of it
    nConns,     \* how many connections have been opened
    dij         \* a call of dijkstra: its arguments, its locals and what it returns

raVars == <<tree, stage, used, elimRuns, prevTree, lastOp, nOps, deltaRule, beforeElim, out, scanLog>>
skipVars == <<skipIter, skipOut>>
impVars == <<frames, poison, status, tx, db>>
concVars == <<callers, relation_locks, lock, closures>>
sqlVars == <<pool, sqliteTx, nConns>>
dijVars == <<dij>>
vars == <<raVars, skipVars, impVars, concVars, sqlVars, dijVars>>

(***************************************************************************)
(* DataValue.  Every value is a sequence of integers whose lexicographic   *)
(* order is the total order of DataValue: Null < Bool < Num < List < Bot.  *)
(***************************************************************************)
Null == <<0>>
BoolV(b) == <<1, IF b THEN 1 ELSE 0>>
Num(n) == <<2, n>>
ListV(elems) == <<3>> \o elems
Bot == <<9>>

IsList(v) == v[1] = 3
IsBool(v) == v[1] = 1

\* DataValue::get_slice of a List: its elements, in list order.
GetSlice(v) == [i \in 1..(Len(v) - 1) |-> Num(v[i + 1])]

MinOf(a, b) == IF a <= b THEN a ELSE b

\* Ord for DataValue
ValLess(a, b) ==
    \E i \in 1..(MinOf(Len(a), Len(b)) + 1) :
        /\ \A j \in 1..(i - 1) : a[j] = b[j]
        /\ \/ i <= Len(a) /\ i <= Len(b) /\ a[i] < b[i]
           \/ i = Len(a) + 1 /\ i <= Len(b)

ValLeq(a, b) == a = b \/ ValLess(a, b)

\* Ord for Tuple (Vec<DataValue>): lexicographic
TupLess(s, t) ==
    \E i \in 1..(MinOf(Len(s), Len(t)) + 1) :
        /\ \A j \in 1..(i - 1) : s[j] = t[j]
        /\ \/ i <= Len(s) /\ i <= Len(t) /\ ValLess(s[i], t[i])
           \/ i = Len(s) + 1 /\ i <= Len(t)

TupLeq(s, t) == s = t \/ TupLess(s, t)

\* The ascending iteration order of a BTreeSet<Tuple>
RECURSIVE SortSet(_)
SortSet(S) ==
    IF S = {} THEN <<>>
    ELSE LET m == CHOOSE t \in S : \A u \in S : TupLeq(t, u)
         IN <<m>> \o SortSet(S \ {m})

Range(s) == {s[i] : i \in 1..Len(s)}

\* slice::starts_with
StartsWith(t, prefix) ==
    /\ Len(prefix) <= Len(t)
    /\ \A i \in 1..Len(prefix) : t[i] = prefix[i]

\* the values of `t` at the (1-based) positions `idxs`, in that order
Project(t, idxs) == [i \in 1..Len(idxs) |-> t[idxs[i]]]

\* position of symbol `s` in the binding list `bs` (0 when absent)
IndexOf(s, bs) ==
    IF \E i \in 1..Len(bs) : bs[i] = s
    THEN CHOOSE i \in 1..Len(bs) : bs[i] = s /\ \A j \in 1..(i - 1) : bs[j] # s
    ELSE 0

RECURSIVE SelectIdx(_, _, _)
\* the positions i of 1..n, ascending from `i`, that are not in `drop`
SelectIdx(i, n, drop) ==
    IF i > n THEN <<>>
    ELSE (IF i \in drop THEN <<>> ELSE <<i>>) \o SelectIdx(i + 1, n, drop)

eliminate_from_tuple(ret, eliminate_indices) ==
    IF eliminate_indices # {}
    THEN Project(ret, SelectIdx(1, Len(ret), eliminate_indices))
    ELSE ret

get_eliminate_indices(bindings, eliminate) ==
    {idx \in 1..Len(bindings) : bindings[idx] \in eliminate}

(***************************************************************************)
(* Expr and its bytecode (crate::data::expr).  An expression is a literal, *)
(* a binding reference (tuple_pos is filled by fill_binding_indices; 0     *)
(* stands for None) or a binary operator application.                      *)
(***************************************************************************)
Const(v) == [op |-> "const", val |-> v]
Var(s) == [op |-> "var", name |-> s, tuple_pos |-> 0]
App(o, a, b) == [op |-> o, args |-> <<a, b>>]

RECURSIVE ExprBindings(_)
\* Expr::bindings: the free variables
ExprBindings(e) ==
    CASE e.op = "const" -> {}
      [] e.op = "var" -> {e.name}
      [] OTHER -> ExprBindings(e.args[1]) \cup ExprBindings(e.args[2])

RECURSIVE ExprResolved(_)
\* every binding reference of `e` carries a tuple position
ExprResolved(e) ==
    CASE e.op = "const" -> TRUE
      [] e.op = "var" -> e.tuple_pos # 0
      [] OTHER -> ExprResolved(e.args[1]) /\ ExprResolved(e.args[2])

\* Expr::fill_binding_indices succeeds iff every referenced symbol is mapped
FillOk(e, bs) == ExprBindings(e) \subseteq Range(bs)

RECURSIVE FillBindingIndices(_, _)
\* Expr::fill_binding_indices: resolve each binding reference to its position
FillBindingIndices(e, bs) ==
    CASE e.op = "const" -> e
      [] e.op = "var" -> [e EXCEPT !.tuple_pos = IndexOf(e.name, bs)]
      [] OTHER -> [e EXCEPT !.args = <<FillBindingIndices(e.args[1], bs),
                                       FillBindingIndices(e.args[2], bs)>>]

RECURSIVE ExprCompile(_)
\* Expr::compile: post-order linearisation into a stack program
ExprCompile(e) ==
    CASE e.op = "const" -> <<[tag |-> "Const", val |-> e.val]>>
      [] e.op = "var" -> <<[tag |-> "Binding", tuple_pos |-> e.tuple_pos]>>
      [] OTHER -> ExprCompile(e.args[1]) \o ExprCompile(e.args[2])
                      \o <<[tag |-> "Apply", op |-> e.op]>>

\* the value of a binary operator on two DataValues
ApplyOp(o, a, b) ==
    CASE o = "ge" -> BoolV(ValLeq(b, a))
      [] o = "gt" -> BoolV(ValLess(b, a))
      [] o = "le" -> BoolV(ValLeq(a, b))
      [] o = "lt" -> BoolV(ValLess(a, b))
      [] o = "eq" -> BoolV(a = b)
      [] o = "and" -> BoolV(a = BoolV(TRUE) /\ b = BoolV(TRUE))

RECURSIVE RunBytecode(_, _, _, _)
\* the stack machine: the value left on top of the stack, or an error
RunBytecode(bc, pc, tuple, stack) ==
    IF pc > Len(bc) THEN
        IF Len(stack) = 0 THEN [ok |-> FALSE, val |-> Null]
        ELSE [ok |-> TRUE, val |-> stack[Len(stack)]]
    ELSE LET ins == bc[pc] IN
        CASE ins.tag = "Const" ->
                RunBytecode(bc, pc + 1, tuple, Append(stack, ins.val))
          [] ins.tag = "Binding" ->
                IF ins.tuple_pos \in 1..Len(tuple)
                THEN RunBytecode(bc, pc + 1, tuple, Append(stack, tuple[ins.tuple_pos]))
                ELSE [ok |-> FALSE, val |-> Null]
          [] ins.tag = "Apply" ->
                LET n == Len(stack) IN
                IF n < 2 THEN [ok |-> FALSE, val |-> Null]
                ELSE RunBytecode(bc, pc + 1, tuple,
                        Append(SubSeq(stack, 1, n - 2),
                               ApplyOp(ins.op, stack[n - 1], stack[n])))

eval_bytecode(bc, tuple) == RunBytecode(bc, 1, tuple, <<>>)

\* eval_bytecode_pred: "true" | "false" | "err" (a non-boolean result is a
\* PredicateTypeError)
eval_bytecode_pred(bc, tuple) ==
    LET r == eval_bytecode(bc, tuple) IN
    IF ~r.ok \/ ~IsBool(r.val) THEN "err"
    ELSE IF r.val = BoolV(TRUE) THEN "true" ELSE "false"

RECURSIVE to_conjunction(_)
\* Expr::to_conjunction: the conjuncts of a conjunction, left to right
to_conjunction(e) ==
    IF e.op = "and"
    THEN to_conjunction(e.args[1]) \o to_conjunction(e.args[2])
    ELSE <<e>>

ValMax(a, b) == IF ValLess(a, b) THEN b ELSE a
ValMin(a, b) == IF ValLess(a, b) THEN a ELSE b

RECURSIVE extract_bound(_, _)
\* the range a predicate confines symbol `s` to: [lower, upper], Null and Bot
\* where it sets no bound
extract_bound(e, s) ==
    LET onSym == e.op \in {"ge", "le", "eq"} /\ e.args[1].op = "var"
                 /\ e.args[1].name = s /\ e.args[2].op = "const"
    IN CASE e.op = "and" ->
                LET a == extract_bound(e.args[1], s)
                    b == extract_bound(e.args[2], s)
                IN [lower |-> ValMax(a.lower, b.lower), upper |-> ValMin(a.upper, b.upper)]
         [] onSym /\ e.op = "ge" -> [lower |-> e.args[2].val, upper |-> Bot]
         [] onSym /\ e.op = "le" -> [lower |-> Null, upper |-> e.args[2].val]
         [] onSym /\ e.op = "eq" -> [lower |-> e.args[2].val, upper |-> e.args[2].val]
         [] OTHER -> [lower |-> Null, upper |-> Bot]

RECURSIVE MergeBound(_, _, _)
MergeBound(filters, i, s) ==
    IF i > Len(filters) THEN [lower |-> Null, upper |-> Bot]
    ELSE LET a == extract_bound(filters[i], s)
             b == MergeBound(filters, i + 1, s)
         IN [lower |-> ValMax(a.lower, b.lower), upper |-> ValMin(a.upper, b.upper)]

\* compute_bounds(filters, symbols): the sentinel-padded lower and upper tuples
compute_bounds(filters, symbols) ==
    [lower |-> [i \in 1..Len(symbols) |-> MergeBound(filters, 1, symbols[i]).lower],
     upper |-> [i \in 1..Len(symbols) |-> MergeBound(filters, 1, symbols[i]).upper]]

(***************************************************************************)
(* RelAlgebra.  A node is a record tagged by `kind`, with the fields of    *)
(* the corresponding Rust struct.                                          *)
(***************************************************************************)
ScanKinds == {"TempStore", "Stored", "StoredWithValidity"}

InlineFixedRA(bindings, data) ==
    [kind |-> "Fixed", bindings |-> bindings, data |-> data, to_eliminate |-> {}]

unit == InlineFixedRA(<<>>, << <<>> >>)

is_unit(r) == r.kind = "Fixed" /\ r.bindings = <<>> /\ Len(r.data) = 1

derived(bindings, storage_key) ==
    [kind |-> "TempStore", bindings |-> bindings, storage_key |-> storage_key,
     filters |-> <<>>, filters_bytecodes |-> <<>>]

StoredRA(bindings, storage) ==
    [kind |-> "Stored", bindings |-> bindings, storage |-> storage,
     filters |-> <<>>, filters_bytecodes |-> <<>>]

StoredWithValidityRA(bindings, storage, vld) ==
    [kind |-> "StoredWithValidity", bindings |-> bindings, storage |-> storage,
     filters |-> <<>>, filters_bytecodes |-> <<>>, valid_at |-> vld]

reorder(r, new_order) == [kind |-> "Reorder", relation |-> r, new_order |-> new_order]

FilteredRA(parent, filters) ==
    [kind |-> "Filter", parent |-> parent, filters |-> filters,
     filters_bytecodes |-> <<>>, to_eliminate |-> {}]

unify(r, binding, expr, is_multi) ==
    [kind |-> "Unification", parent |-> r, binding |-> binding, expr |-> expr,
     expr_bytecode |-> <<>>, is_multi |-> is_multi, to_eliminate |-> {}]

join(l, right, left_keys, right_keys) ==
    [kind |-> "Join", left |-> l, right |-> right,
     joiner |-> [left_keys |-> left_keys, right_keys |-> right_keys],
     to_eliminate |-> {}]

cartesian_join(l, right) == join(l, right, <<>>, <<>>)

neg_join(l, right, left_keys, right_keys) ==
    [kind |-> "NegJoin", left |-> l, right |-> right,
     joiner |-> [left_keys |-> left_keys, right_keys |-> right_keys],
     to_eliminate |-> {}]

eliminate_set(r) ==
    IF r.kind \in {"Fixed", "Join", "Filter", "NegJoin", "Unification"}
    THEN r.to_eliminate
    ELSE {}

\* the elements of `bs`, in order, that are not in `drop`
Without(bs, drop) == SelectSeq(bs, LAMBDA b : b \notin drop)

RECURSIVE bindings_before_eliminate(_)
RECURSIVE bindings_after_eliminate(_)
bindings_before_eliminate(r) ==
    CASE r.kind \in {"Fixed"} \cup ScanKinds -> r.bindings
      [] r.kind = "Join" ->
            bindings_after_eliminate(r.left) \o bindings_after_eliminate(r.right)
      [] r.kind = "Reorder" -> r.new_order
      [] r.kind = "Filter" -> bindings_after_eliminate(r.parent)
      [] r.kind = "NegJoin" -> bindings_after_eliminate(r.left)
      [] r.kind = "Unification" ->
            Append(bindings_after_eliminate(r.parent), r.binding)

bindings_after_eliminate(r) == Without(bindings_before_eliminate(r), eliminate_set(r))

\* InnerJoin::bindings
JoinBindings(j) == bindings_after_eliminate(j.left) \o bindings_after_eliminate(j.right)

RECURSIVE RAFilter(_, _)
RECURSIVE SplitConjuncts(_, _, _, _, _)
\* a faulty SplitConjuncts: every conjunct is kept for the residual Filter
SplitConjuncts_all_residual(inner, lb, rb, conj, i) ==
    [left |-> inner.left, right |-> inner.right,
     remaining |-> SubSeq(conj, i, Len(conj))]

\* the loop of the Join arm of RelAlgebra::filter over the conjuncts from `i`
SplitConjuncts(inner, lb, rb, conj, i) ==
    IF i > Len(conj) THEN [left |-> inner.left, right |-> inner.right, remaining |-> <<>>]
    ELSE LET f == conj[i]
             fb == ExprBindings(f)
             now == IF fb \subseteq lb
                    THEN [inner EXCEPT !.left = RAFilter(inner.left, f)]
                    ELSE IF fb \subseteq rb
                    THEN [inner EXCEPT !.right = RAFilter(inner.right, f)]
                    ELSE inner
             rest == SplitConjuncts(now, lb, rb, conj, i + 1)
         IN IF fb \subseteq lb \/ fb \subseteq rb THEN rest
            ELSE [rest EXCEPT !.remaining = <<f>> \o rest.remaining]

\* a faulty filter: a Filter node is wrapped around every node but a scan or a
\* join, a Filter included
RAFilter_nesting(r, filter) ==
    CASE r.kind \in ScanKinds -> [r EXCEPT !.filters = Append(r.filters, filter)]
      [] r.kind = "Join" ->
            LET lb == Range(bindings_before_eliminate(r.left))
                rb == Range(bindings_before_eliminate(r.right))
                sp == SplitConjuncts(r, lb, rb, to_conjunction(filter), 1)
                joined == [r EXCEPT !.left = sp.left, !.right = sp.right]
            IN IF sp.remaining # <<>> THEN FilteredRA(joined, sp.remaining)
               ELSE joined
      [] OTHER -> FilteredRA(r, <<filter>>)

\* RelAlgebra::filter
RAFilter(r, filter) ==
    CASE r.kind \in {"Fixed", "Reorder", "NegJoin", "Unification"} ->
            FilteredRA(r, <<filter>>)
      [] r.kind = "Filter" -> [r EXCEPT !.filters = Append(r.filters, filter)]
      [] r.kind \in ScanKinds -> [r EXCEPT !.filters = Append(r.filters, filter)]
      [] r.kind = "Join" ->
            LET lb == Range(bindings_before_eliminate(r.left))
                rb == Range(bindings_before_eliminate(r.right))
                sp == SplitConjuncts(r, lb, rb, to_conjunction(filter), 1)
                joined == [r EXCEPT !.left = sp.left, !.right = sp.right]
            IN IF sp.remaining # <<>> THEN FilteredRA(joined, sp.remaining)
               ELSE joined

RECURSIVE FiltersBindings(_, _)
\* the union of the free variables of filters[i..]
FiltersBindings(filters, i) ==
    IF i > Len(filters) THEN {}
    ELSE ExprBindings(filters[i]) \cup FiltersBindings(filters, i + 1)

RECURSIVE eliminate_temp_vars(_, _)
\* a faulty eliminate_temp_vars: a join's elimination set is recomputed from its
\* current bindings instead of being added to
eliminate_temp_vars_recomputing(r, u) ==
    CASE r.kind = "Fixed" ->
            [r EXCEPT !.to_eliminate = @ \cup (Range(r.bindings) \ u)]
      [] r.kind \in ScanKinds -> r
      [] r.kind = "Join" ->
            LET lu == u \cup Range(r.joiner.left_keys)
                        \cup (IF r.right.kind = "TempStore"
                              THEN FiltersBindings(r.right.filters, 1) ELSE {})
                ru == u \cup Range(r.joiner.right_keys)
            IN [r EXCEPT !.to_eliminate = Range(JoinBindings(r)) \ u,
                         !.left = eliminate_temp_vars(r.left, lu),
                         !.right = eliminate_temp_vars(r.right, ru)]
      [] r.kind = "Reorder" -> [r EXCEPT !.relation = eliminate_temp_vars(r.relation, u)]
      [] r.kind = "Filter" ->
            [r EXCEPT !.to_eliminate =
                            @ \cup (Range(bindings_before_eliminate(r.parent)) \ u),
                      !.parent = eliminate_temp_vars(r.parent,
                                        u \cup FiltersBindings(r.filters, 1))]
      [] r.kind = "NegJoin" ->
            [r EXCEPT !.to_eliminate =
                            @ \cup (Range(bindings_after_eliminate(r.left)) \ u),
                      !.left = eliminate_temp_vars(r.left,
                                        u \cup Range(r.joiner.left_keys))]
      [] r.kind = "Unification" ->
            [r EXCEPT !.to_eliminate =
                            @ \cup (Range(bindings_before_eliminate(r.parent)) \ u),
                      !.parent = eliminate_temp_vars(r.parent,
                                        u \cup ExprBindings(r.expr))]

\* RelAlgebra::eliminate_temp_vars and the do_eliminate_temp_vars it dispatches to
eliminate_temp_vars(r, u) ==
    CASE r.kind = "Fixed" ->
            [r EXCEPT !.to_eliminate = @ \cup (Range(r.bindings) \ u)]
      [] r.kind \in ScanKinds -> r
      [] r.kind = "Join" ->
            LET lu == u \cup Range(r.joiner.left_keys)
                        \cup (IF r.right.kind = "TempStore"
                              THEN FiltersBindings(r.right.filters, 1) ELSE {})
                ru == u \cup Range(r.joiner.right_keys)
            IN [r EXCEPT !.to_eliminate = @ \cup (Range(JoinBindings(r)) \ u),
                         !.left = eliminate_temp_vars(r.left, lu),
                         !.right = eliminate_temp_vars(r.right, ru)]
      [] r.kind = "Reorder" -> [r EXCEPT !.relation = eliminate_temp_vars(r.relation, u)]
      [] r.kind = "Filter" ->
            [r EXCEPT !.to_eliminate =
                            @ \cup (Range(bindings_before_eliminate(r.parent)) \ u),
                      !.parent = eliminate_temp_vars(r.parent,
                                        u \cup FiltersBindings(r.filters, 1))]
      [] r.kind = "NegJoin" ->
            [r EXCEPT !.to_eliminate =
                            @ \cup (Range(bindings_after_eliminate(r.left)) \ u),
                      !.left = eliminate_temp_vars(r.left,
                                        u \cup Range(r.joiner.left_keys))]
      [] r.kind = "Unification" ->
            [r EXCEPT !.to_eliminate =
                            @ \cup (Range(bindings_before_eliminate(r.parent)) \ u),
                      !.parent = eliminate_temp_vars(r.parent,
                                        u \cup ExprBindings(r.expr))]

RECURSIVE CompileFilters(_, _, _)
\* the `for e in self.filters.iter_mut()` loop of fill_binding_indices_and_compile:
\* every filter is resolved against `bs`; its bytecode is pushed onto the list
CompileFilters(r, bs, i) ==
    IF i > Len(r.filters) THEN [ok |-> TRUE, ra |-> r]
    ELSE IF ~FillOk(r.filters[i], bs) THEN [ok |-> FALSE, ra |-> r]
    ELSE LET e == FillBindingIndices(r.filters[i], bs)
         IN CompileFilters([r EXCEPT !.filters[i] = e,
                                     !.filters_bytecodes = Append(@, ExprCompile(e))],
                           bs, i + 1)

RECURSIVE fill_binding_indices_and_compile(_)
\* RelAlgebra::fill_binding_indices_and_compile: [ok, ra]
fill_binding_indices_and_compile(r) ==
    CASE r.kind = "Fixed" -> [ok |-> TRUE, ra |-> r]
      [] r.kind \in ScanKinds -> CompileFilters(r, r.bindings, 1)
      [] r.kind = "Reorder" ->
            LET c == fill_binding_indices_and_compile(r.relation)
            IN [ok |-> c.ok, ra |-> [r EXCEPT !.relation = c.ra]]
      [] r.kind = "Filter" ->
            LET c == fill_binding_indices_and_compile(r.parent)
                withParent == [r EXCEPT !.parent = c.ra]
            IN IF ~c.ok THEN [ok |-> FALSE, ra |-> withParent]
               ELSE CompileFilters(withParent, bindings_after_eliminate(c.ra), 1)
      [] r.kind = "NegJoin" ->
            LET c == fill_binding_indices_and_compile(r.left)
            IN [ok |-> c.ok, ra |-> [r EXCEPT !.left = c.ra]]
      [] r.kind = "Unification" ->
            LET c == fill_binding_indices_and_compile(r.parent)
                withParent == [r EXCEPT !.parent = c.ra]
                bs == bindings_after_eliminate(c.ra)
            IN IF ~c.ok \/ ~FillOk(r.expr, bs) THEN [ok |-> FALSE, ra |-> withParent]
               ELSE LET e == FillBindingIndices(r.expr, bs)
                    IN [ok |-> TRUE,
                        ra |-> [withParent EXCEPT !.expr = e,
                                                  !.expr_bytecode = ExprCompile(e)]]
      [] r.kind = "Join" ->
            LET cl == fill_binding_indices_and_compile(r.left)
                cr == fill_binding_indices_and_compile(r.right)
            IN IF ~cl.ok THEN [ok |-> FALSE, ra |-> [r EXCEPT !.left = cl.ra]]
               ELSE [ok |-> cr.ok, ra |-> [r EXCEPT !.left = cl.ra, !.right = cr.ra]]

(***************************************************************************)
(* Storage.  An EpochStore holds the tuples of a derived relation (`all`)  *)
(* and those of the current epoch (`delta`), iterated in tuple order.  A   *)
(* stored relation holds rows of `keys` key columns followed by `non_keys` *)
(* value columns, unique on the key, scanned in key order.                 *)
(***************************************************************************)
\* a Validity: timestamp and is_assert both order descending (Reverse), so the
\* stored components are the distance of the timestamp from MaxTs, then 0 for
\* an assertion and 1 for a retraction
MaxTs == 9
Vld(ts, is_assert) == <<4, MaxTs - ts, IF is_assert THEN 0 ELSE 1>>
VldTs(v) == MaxTs - v[2]
VldIsAssert(v) == v[3] = 0

Stores ==
    [l |-> [all |-> {<<Num(1)>>, <<Num(2)>>, <<Num(3)>>}, delta |-> {<<Num(3)>>}],
     data |-> [all |-> {<<Num(1), Num(2)>>, <<Num(1), Num(3)>>, <<Num(2), Num(3)>>},
               delta |-> {<<Num(2), Num(3)>>}],
     rl |-> [all |-> {<<Num(1), ListV(<<10, 20>>)>>, <<Num(2), ListV(<<>>)>>},
             delta |-> {}]]

\* NullableColType of a key column
ColTyping(coltype, nullable) == [coltype |-> coltype, nullable |-> nullable]

Relations ==
    [r |-> [keys |-> 1, non_keys |-> 0, last_key_typing |-> ColTyping("Int", FALSE),
            rows |-> {<<Num(2)>>}],
     s2 |-> [keys |-> 2, non_keys |-> 1, last_key_typing |-> ColTyping("Int", FALSE),
             rows |-> {<<Num(1), Num(1), Num(1)>>, <<Num(1), Num(2), Num(2)>>,
                       <<Num(2), Num(1), Num(3)>>, <<Num(2), Num(2), Num(9)>>}],
     sv |-> [keys |-> 2, non_keys |-> 1, last_key_typing |-> ColTyping("Validity", FALSE),
             rows |-> {<<Num(1), Vld(1, TRUE), Num(11)>>, <<Num(1), Vld(3, TRUE), Num(13)>>,
                       <<Num(1), Vld(5, FALSE), Null>>, <<Num(2), Vld(2, TRUE), Num(22)>>}],
     sn |-> [keys |-> 1, non_keys |-> 0, last_key_typing |-> ColTyping("Validity", TRUE),
             rows |-> {<<Vld(2, TRUE)>>}]]

all_iter(st) == SortSet(st.all)
delta_all_iter(st) == SortSet(st.delta)
prefix_iter(st, prefix) == SortSet({t \in st.all : StartsWith(t, prefix)})
delta_prefix_iter(st, prefix) == SortSet({t \in st.delta : StartsWith(t, prefix)})

InRange(t, lo, hi, inclusive) ==
    TupLeq(lo, t) /\ (IF inclusive THEN TupLeq(t, hi) ELSE TupLess(t, hi))

range_iter(st, lo, hi, inclusive) == SortSet({t \in st.all : InRange(t, lo, hi, inclusive)})
delta_range_iter(st, lo, hi, inclusive) ==
    SortSet({t \in st.delta : InRange(t, lo, hi, inclusive)})

KeyOf(rel, row) == SubSeq(row, 1, rel.keys)

\* get(key): the row stored under `key`, as a set of at most one row
get(rel, key) == {row \in rel.rows : KeyOf(rel, row) = key}
exists(rel, key) == get(rel, key) # {}
scan_all(rel) == SortSet(rel.rows)
\* scan_prefix: the rows whose key begins with `prefix`
scan_prefix(rel, prefix) == SortSet({row \in rel.rows : StartsWith(KeyOf(rel, row), prefix)})

\* the columns after the prefix lie between the bound tuples; `upper` is closed
\* by the Bot sentinel, so the half-open range ends at upper ++ <<Bot>>
InBounds(row, prefix, lower, upper) ==
    LET suffix == SubSeq(row, Len(prefix) + 1, Len(row))
    IN StartsWith(row, prefix) /\ TupLeq(lower, suffix)
       /\ TupLess(suffix, Append(upper, Bot))

scan_bounded_prefix(rel, prefix, lower, upper) ==
    SortSet({row \in rel.rows : InBounds(row, prefix, lower, upper)})

\* the rows visible at `valid_at`: for each non-validity key prefix, the record
\* with the greatest timestamp <= valid_at, unless it is a tombstone
Visible(rel, valid_at) ==
    {row \in rel.rows :
        LET v == row[rel.keys]
            same == {o \in rel.rows : SubSeq(o, 1, rel.keys - 1) = SubSeq(row, 1, rel.keys - 1)
                                       /\ VldTs(o[rel.keys]) <= valid_at}
        IN /\ VldTs(v) <= valid_at
           /\ \A o \in same : VldTs(o[rel.keys]) <= VldTs(v)
           /\ VldIsAssert(v)}

\* check_key_for_validity(key, valid_at): the tuple of the key when it applies
\* at valid_at (<<>> when it does not), and the next seek key: a key newer
\* than valid_at seeks to the same prefix at valid_at, any other key seeks
\* past its prefix
check_key_for_validity(key, valid_at) ==
    LET n == Len(key)
        vld == key[n]
        prefix == SubSeq(key, 1, n - 1)
    IN IF VldTs(vld) > valid_at
       THEN [ret |-> <<>>, nxt |-> Append(prefix, Vld(valid_at, TRUE))]
       ELSE IF ~VldIsAssert(vld)
       THEN [ret |-> <<>>, nxt |-> Append(prefix, Bot)]
       ELSE [ret |-> <<key>>, nxt |-> Append(prefix, Bot)]

\* SqliteTx::range_skip_scan_tuple: a SkipIter over the table `rel`
range_skip_scan_tuple(rel, lower, upper, valid_at) ==
    [stmt |-> rel, valid_at |-> valid_at, next_bound |-> lower, upper_bound |-> upper]

\* SKIP_RANGE_QUERY: the rows with next_bound <= k < upper_bound
SkipRangeQuery(it) ==
    {row \in it.stmt.rows : /\ TupLeq(it.next_bound, KeyOf(it.stmt, row))
                            /\ TupLess(KeyOf(it.stmt, row), it.upper_bound)}

\* a faulty next_inner: the row found is returned whenever its validity is an
\* assertion, without seeking to valid_at first
RECURSIVE next_inner_ignoring_valid_at(_)
next_inner_ignoring_valid_at(it) ==
    LET found == SkipRangeQuery(it)
    IN IF found = {} THEN [it |-> it, ret |-> <<>>]
       ELSE LET row == CHOOSE r \in found : \A o \in found : TupLeq(r, o)
                chk == check_key_for_validity(KeyOf(it.stmt, row), MaxTs)
                nxt == [it EXCEPT !.next_bound = chk.nxt]
            IN IF chk.ret # <<>> THEN [it |-> nxt, ret |-> <<row>>]
               ELSE next_inner_ignoring_valid_at(nxt)

\* SkipIter::next_inner: [it, ret], ret = <<>> for None and <<tuple>> for Some
RECURSIVE next_inner(_)
next_inner(it) ==
    LET found == SkipRangeQuery(it)
    IN IF found = {} THEN [it |-> it, ret |-> <<>>]
       ELSE LET row == CHOOSE r \in found : \A o \in found : TupLeq(r, o)
                chk == check_key_for_validity(KeyOf(it.stmt, row), it.valid_at)
                nxt == [it EXCEPT !.next_bound = chk.nxt]
            IN IF chk.ret # <<>> THEN [it |-> nxt, ret |-> <<row>>]
               ELSE next_inner(nxt)

\* the SkipIter drained
RECURSIVE SkipCollect(_)
SkipCollect(it) ==
    LET n == next_inner(it)
    IN IF n.ret = <<>> THEN <<>> ELSE n.ret \o SkipCollect(n.it)

skip_scan_all(rel, valid_at) ==
    SkipCollect(range_skip_scan_tuple(rel, <<>>, <<Bot>>, valid_at))
skip_scan_prefix(rel, prefix, valid_at) ==
    SkipCollect(range_skip_scan_tuple(rel, prefix, Append(prefix, Bot), valid_at))
skip_scan_bounded_prefix(rel, prefix, lower, upper, valid_at) ==
    SkipCollect(range_skip_scan_tuple(rel, prefix \o lower, Append(prefix \o upper, Bot),
                                      valid_at))

\* the absence of a node where a constructor failed
NoNode == [kind |-> "NoNode"]

\* a faulty relation: a nullable Validity column is accepted for time travel
relation_accepting_nullable(bindings, storage, validity) ==
    IF validity = <<>> THEN [ok |-> TRUE, ra |-> StoredRA(bindings, storage)]
    ELSE IF Relations[storage].last_key_typing.coltype # "Validity"
    THEN [ok |-> FALSE, ra |-> NoNode]
    ELSE [ok |-> TRUE, ra |-> StoredWithValidityRA(bindings, storage, validity[1])]

\* RelAlgebra::relation: [ok, ra]; `validity` is <<>> for None and <<ts>> for
\* Some(ts); a time-travel scan needs a relation whose last key column has the
\* typing Validity, not nullable; the failure is InvalidTimeTravelScanning
relation(bindings, storage, validity) ==
    IF validity = <<>> THEN [ok |-> TRUE, ra |-> StoredRA(bindings, storage)]
    ELSE IF Relations[storage].last_key_typing # ColTyping("Validity", FALSE)
    THEN [ok |-> FALSE, ra |-> NoNode]
    ELSE [ok |-> TRUE, ra |-> StoredWithValidityRA(bindings, storage, validity[1])]

(***************************************************************************)
(* Tuple streams.  A TupleIter is the sequence of tuples it yields up to   *)
(* its first error: [rows, err], err = "none" when it ends normally.       *)
(***************************************************************************)
OkS(rows) == [rows |-> rows, err |-> "none"]
ErrS(e) == [rows |-> <<>>, err |-> e]

RECURSIVE ConcatS(_, _, _)
\* the streams parts[i..] one after the other, cut at the first error, and
\* ending with `tailErr`
ConcatS(parts, i, tailErr) ==
    IF i > Len(parts) THEN [rows |-> <<>>, err |-> tailErr]
    ELSE IF parts[i].err # "none" THEN parts[i]
    ELSE LET rest == ConcatS(parts, i + 1, tailErr)
         IN [rows |-> parts[i].rows \o rest.rows, err |-> rest.err]

\* map_ok(P).flatten_ok(): each tuple of `s` replaced by the stream P yields for it
FlatMapS(s, P(_)) == ConcatS([i \in 1..Len(s.rows) |-> P(s.rows[i])], 1, s.err)

\* map_ok(F)
MapS(s, F(_)) == [rows |-> [i \in 1..Len(s.rows) |-> F(s.rows[i])], err |-> s.err]

RECURSIVE PassFilters(_, _, _)
\* the loop over filters_bytecodes: "true" when every predicate holds on `t`,
\* "false" at the first that does not, "err" at the first that fails
PassFilters(bcs, i, t) ==
    IF i > Len(bcs) THEN "true"
    ELSE LET p == eval_bytecode_pred(bcs[i], t)
         IN IF p = "true" THEN PassFilters(bcs, i + 1, t) ELSE p

\* the stream of one tuple kept, dropped or failed by the predicates
FilterOne(bcs, t, ret) ==
    LET p == PassFilters(bcs, 1, t)
    IN CASE p = "true" -> OkS(<<ret>>)
         [] p = "false" -> OkS(<<>>)
         [] OTHER -> ErrS("PredicateTypeError")

filter_iter(filters_bytecodes, it) ==
    FlatMapS(it, LAMBDA t : FilterOne(filters_bytecodes, t, t))

\* Joiner::join_indices (1-based; 0 where a key is no binding of its side)
join_indices(joiner, left_bindings, right_bindings) ==
    [l |-> [i \in 1..Len(joiner.left_keys) |-> IndexOf(joiner.left_keys[i], left_bindings)],
     r |-> [i \in 1..Len(joiner.left_keys) |-> IndexOf(joiner.right_keys[i], right_bindings)]]

JoinIndicesOk(ji) == \A i \in 1..Len(ji.l) : ji.l[i] # 0 /\ ji.r[i] # 0

join_is_prefix(right_join_indices) ==
    /\ Range(right_join_indices) = 1..Len(right_join_indices)

RECURSIVE SortedPositions(_, _)
\* the positions of `idxs`, ordered by the index they hold (stable)
SortedPositions(idxs, todo) ==
    IF todo = {} THEN <<>>
    ELSE LET a == CHOOSE a \in todo : \A b \in todo :
                        idxs[a] < idxs[b] \/ (idxs[a] = idxs[b] /\ a <= b)
         IN <<a>> \o SortedPositions(idxs, todo \ {a})

\* left_to_prefix_indices of the prefix joins
left_to_prefix_indices(ji) ==
    LET order == SortedPositions(ji.r, 1..Len(ji.r))
    IN [i \in 1..Len(order) |-> ji.l[order[i]]]

RECURSIVE NegPrefixLen(_, _, _)
\* the loop building left_to_prefix_indices in neg_join: stop at the first
\* sorted right index that is not its own ordinal
NegPrefixLen(ji, order, i) ==
    IF i > Len(order) \/ ji.r[order[i]] # i THEN 0
    ELSE 1 + NegPrefixLen(ji, order, i + 1)

neg_left_to_prefix_indices(ji) ==
    LET order == SortedPositions(ji.r, 1..Len(ji.r))
    IN [i \in 1..NegPrefixLen(ji, order, 1) |-> ji.l[order[i]]]

\* the trailing `if eliminate_indices.is_empty() {it} else {it.map_ok(eliminate)}`
EliminateS(s, eliminate_indices) ==
    MapS(s, LAMBDA t : eliminate_from_tuple(t, eliminate_indices))

\* InlineFixedRA::join
FixedJoin(f, left_iter, ji, eliminate_indices) ==
    IF Len(f.data) = 0 THEN OkS(<<>>)
    ELSE IF Len(f.data) = 1 THEN
        LET data == f.data[1]
            right_join_values == Project(data, ji.r)
        IN FlatMapS(left_iter, LAMBDA tuple :
                IF Project(tuple, ji.l) = right_join_values
                THEN OkS(<<eliminate_from_tuple(tuple \o data, eliminate_indices)>>)
                ELSE OkS(<<>>))
    ELSE FlatMapS(left_iter, LAMBDA tuple :
            LET hits == SelectSeq(f.data, LAMBDA d : Project(d, ji.r) = Project(tuple, ji.l))
            IN OkS([i \in 1..Len(hits) |-> tuple \o hits[i]]))

\* other_bindings of a prefix join: the scan's bindings after the join columns
other_bindings(r, ji) == SubSeq(r.bindings, Len(ji.r) + 1, Len(r.bindings))

\* whether the prefix join of scan `r` takes the bounded branch: there are
\* filters and the bounds derived from them are not all Null / all Bot
UseBounds(r, ji) ==
    /\ r.filters # <<>>
    /\ LET b == compute_bounds(r.filters, other_bindings(r, ji))
       IN \/ \E i \in 1..Len(b.lower) : b.lower[i] # Null
          \/ \E i \in 1..Len(b.upper) : b.upper[i] # Bot

\* the right tuples found for one left tuple, each checked against the
\* compiled filters and appended to the left tuple
Matched(r, tuple, found) ==
    FlatMapS(OkS(found), LAMBDA f : FilterOne(r.filters_bytecodes, f, tuple \o f))

\* StoredRA::prefix_join: the scan made for one prefix, bounded or not
StoredFound(r, ji, prefix, bounded) ==
    LET b == compute_bounds(r.filters, other_bindings(r, ji))
    IN IF bounded
       THEN scan_bounded_prefix(Relations[r.storage], prefix, b.lower, b.upper)
       ELSE scan_prefix(Relations[r.storage], prefix)

\* StoredWithValidityRA::prefix_join: the skip scan made for one prefix
ValidityFound(r, ji, prefix, bounded) ==
    LET b == compute_bounds(r.filters, other_bindings(r, ji))
    IN IF bounded
       THEN skip_scan_bounded_prefix(Relations[r.storage], prefix, b.lower, b.upper,
                                     r.valid_at)
       ELSE skip_scan_prefix(Relations[r.storage], prefix, r.valid_at)

\* a faulty TempFound: the bounded branch always scans every tuple
TempFound_bounded_scans_all(r, ji, prefix, bounded, delta_rule) ==
    LET b == compute_bounds(r.filters, other_bindings(r, ji))
        storage == Stores[r.storage_key]
        scan_epoch == delta_rule = r.storage_key
    IN IF bounded
       THEN range_iter(storage, prefix \o b.lower, prefix \o b.upper, TRUE)
       ELSE IF scan_epoch THEN delta_prefix_iter(storage, prefix)
            ELSE prefix_iter(storage, prefix)

\* a faulty TempFound: the range iteration excludes its upper bound
TempFound_exclusive(r, ji, prefix, bounded, delta_rule) ==
    LET b == compute_bounds(r.filters, other_bindings(r, ji))
        storage == Stores[r.storage_key]
        scan_epoch == delta_rule = r.storage_key
    IN IF bounded
       THEN IF scan_epoch
            THEN delta_range_iter(storage, prefix \o b.lower, prefix \o b.upper, FALSE)
            ELSE range_iter(storage, prefix \o b.lower, prefix \o b.upper, FALSE)
       ELSE IF scan_epoch THEN delta_prefix_iter(storage, prefix)
            ELSE prefix_iter(storage, prefix)

\* TempStoreRA::prefix_join: the store iteration made for one prefix
TempFound(r, ji, prefix, bounded, delta_rule) ==
    LET b == compute_bounds(r.filters, other_bindings(r, ji))
        storage == Stores[r.storage_key]
        scan_epoch == delta_rule = r.storage_key
    IN IF bounded
       THEN IF scan_epoch
            THEN delta_range_iter(storage, prefix \o b.lower, prefix \o b.upper, TRUE)
            ELSE range_iter(storage, prefix \o b.lower, prefix \o b.upper, TRUE)
       ELSE IF scan_epoch THEN delta_prefix_iter(storage, prefix)
            ELSE prefix_iter(storage, prefix)

\* a faulty closure: the flag is set by every call
prefix_join_closure_always_latching(r, ji, skip_range_check) ==
    LET checked == ~skip_range_check /\ r.filters # <<>>
    IN [skip_range_check |-> TRUE, checked |-> checked,
        bounded |-> checked /\ UseBounds(r, ji)]

\* one call of the closure of the three prefix_join functions, as far as the
\* scan it chooses goes: the flag after the call, whether compute_bounds was
\* run, and whether the scan is the bounded one
prefix_join_closure(r, ji, skip_range_check) ==
    LET checked == ~skip_range_check /\ r.filters # <<>>
    IN IF checked /\ UseBounds(r, ji)
       THEN [skip_range_check |-> skip_range_check, checked |-> TRUE, bounded |-> TRUE]
       ELSE [skip_range_check |-> TRUE, checked |-> checked, bounded |-> FALSE]

RECURSIVE prefix_join_calls(_, _, _, _)
\* the calls of the closure for `n` left tuples, the flag being
\* `skip_range_check` before the first
prefix_join_calls(r, ji, n, skip_range_check) ==
    IF n = 0 THEN <<>>
    ELSE LET call == prefix_join_closure(r, ji, skip_range_check)
         IN <<call>> \o prefix_join_calls(r, ji, n - 1, call.skip_range_check)

\* StoredRA::point_lookup_join
point_lookup_join(r, left_iter, key_len, ltp, eliminate_indices, left_tuple_len) ==
    LET rel == Relations[r.storage]
        val_len == rel.non_keys
        all_right_val_indices == {left_tuple_len + key_len + i : i \in 1..val_len}
    IN IF r.filters = <<>> /\ all_right_val_indices \subseteq eliminate_indices
       THEN EliminateS(
                FlatMapS(left_iter, LAMBDA tuple :
                    LET key == SubSeq(Project(tuple, ltp), 1, key_len)
                        p == PassFilters(r.filters_bytecodes, 1, key)
                    IN CASE p = "err" -> ErrS("PredicateTypeError")
                         [] p = "false" -> OkS(<<>>)
                         [] OTHER ->
                            IF exists(rel, key)
                            THEN OkS(<<tuple \o key \o [i \in 1..val_len |-> Bot]>>)
                            ELSE OkS(<<>>)),
                eliminate_indices)
       ELSE EliminateS(
                FlatMapS(left_iter, LAMBDA tuple :
                    LET key == SubSeq(Project(tuple, ltp), 1, key_len)
                    IN Matched(r, tuple, SortSet(get(rel, key)))),
                eliminate_indices)

\* StoredRA::prefix_join
StoredPrefixJoin(r, left_iter, ji, eliminate_indices, left_tuple_len) ==
    LET ltp == left_to_prefix_indices(ji)
        key_len == Relations[r.storage].keys
    IN IF Len(ltp) >= key_len
       THEN point_lookup_join(r, left_iter, key_len, ltp, eliminate_indices, left_tuple_len)
       ELSE EliminateS(
                FlatMapS(left_iter, LAMBDA tuple :
                    Matched(r, tuple,
                            StoredFound(r, ji, Project(tuple, ltp), UseBounds(r, ji)))),
                eliminate_indices)

\* StoredWithValidityRA::prefix_join
ValidityPrefixJoin(r, left_iter, ji, eliminate_indices) ==
    LET ltp == left_to_prefix_indices(ji)
    IN EliminateS(
            FlatMapS(left_iter, LAMBDA tuple :
                Matched(r, tuple,
                        ValidityFound(r, ji, Project(tuple, ltp), UseBounds(r, ji)))),
            eliminate_indices)

\* TempStoreRA::prefix_join
TempPrefixJoin(r, left_iter, ji, eliminate_indices, delta_rule) ==
    LET ltp == left_to_prefix_indices(ji)
    IN EliminateS(
            FlatMapS(left_iter, LAMBDA tuple :
                Matched(r, tuple,
                        TempFound(r, ji, Project(tuple, ltp), UseBounds(r, ji),
                                  delta_rule))),
            eliminate_indices)

\* the body shared by the neg_join implementations: `tuple` is dropped when
\* `hit`, and otherwise passed on with its eliminated columns removed
NegKeep(left_iter, eliminate_indices, Hit(_)) ==
    FlatMapS(left_iter, LAMBDA tuple :
        IF Hit(tuple) THEN OkS(<<>>)
        ELSE OkS(<<eliminate_from_tuple(tuple, eliminate_indices)>>))

\* whether some tuple of `found` agrees with `tuple` on every join column
JoinColumnsAgree(found, tuple, ji) ==
    \E k \in 1..Len(found) : \A i \in 1..Len(ji.l) : tuple[ji.l[i]] = found[k][ji.r[i]]

\* StoredRA::neg_join
StoredNegJoin(r, left_iter, ji, eliminate_indices) ==
    LET rel == Relations[r.storage]
        ltp == neg_left_to_prefix_indices(ji)
    IN IF join_is_prefix(ji.r)
       THEN NegKeep(left_iter, eliminate_indices, LAMBDA tuple :
                JoinColumnsAgree(scan_prefix(rel, Project(tuple, ltp)), tuple, ji))
       ELSE LET all == scan_all(rel)
                right_join_vals == {Project(all[k], ji.r) : k \in 1..Len(all)}
            IN NegKeep(left_iter, eliminate_indices, LAMBDA tuple :
                    Project(tuple, ji.l) \in right_join_vals)

\* TempStoreRA::neg_join
TempNegJoin(r, left_iter, ji, eliminate_indices) ==
    LET storage == Stores[r.storage_key]
        ltp == neg_left_to_prefix_indices(ji)
    IN IF join_is_prefix(ji.r)
       THEN NegKeep(left_iter, eliminate_indices, LAMBDA tuple :
                JoinColumnsAgree(prefix_iter(storage, Project(tuple, ltp)), tuple, ji))
       ELSE LET all == all_iter(storage)
                right_join_vals == {Project(all[k], ji.r) : k \in 1..Len(all)}
            IN NegKeep(left_iter, eliminate_indices, LAMBDA tuple :
                    Project(tuple, ji.l) \in right_join_vals)

\* slice::binary_search(&prefix) over the sorted, duplicate-free `mat`: the
\* index of the element equal to `prefix`, or else its insertion point
\* (0-based: the number of elements below `prefix`)
binary_search(mat, prefix) == Cardinality({k \in 1..Len(mat) : TupLess(mat[k], prefix)})

\* build_mat_range_iter: (prefix, idx)
build_mat_range_iter(mat, left_join_indices, left_tuple) ==
    LET prefix == Project(left_tuple, left_join_indices)
    IN [prefix |-> prefix, idx |-> binary_search(mat, prefix)]

RECURSIVE advance_right_last_first(_, _, _)
\* a faulty advance_right: the run of cached tuples is handed out from its end
advance_right_last_first(materialized, right_idx, prefix) ==
    IF right_idx = Len(materialized) THEN <<>>
    ELSE LET ret == materialized[right_idx + 1]
         IN IF StartsWith(ret, prefix)
            THEN advance_right_last_first(materialized, right_idx + 1, prefix) \o <<ret>>
            ELSE <<>>

RECURSIVE advance_right(_, _, _)
\* CachedMaterializedIterator::advance_right, repeated until it returns None:
\* the cached tuples from right_idx (0-based) on that start with `prefix`
advance_right(materialized, right_idx, prefix) ==
    IF right_idx = Len(materialized) THEN <<>>
    ELSE LET ret == materialized[right_idx + 1]
         IN IF StartsWith(ret, prefix)
            THEN <<ret>> \o advance_right(materialized, right_idx + 1, prefix)
            ELSE <<>>

\* a faulty right_store_indices: the columns cached in binding order, the join
\* columns not moved to the front
right_store_indices_in_binding_order(right_join_indices, n) == SelectIdx(1, n, {})

\* right_store_indices: the join columns first, then the others in order
right_store_indices(right_join_indices, n) ==
    right_join_indices \o SelectIdx(1, n, Range(right_join_indices))

\* right_invert_indices: for each right column, its position in a cached tuple
right_invert_indices(store_indices) == SortedPositions(store_indices, 1..Len(store_indices))

\* InnerJoin::materialized_join with CachedMaterializedIterator
materialized_join(j, left_iter, right_iter, eliminate_indices) ==
    LET right_bindings == bindings_after_eliminate(j.right)
        ji == join_indices(j.joiner, bindings_after_eliminate(j.left), right_bindings)
        store_indices == right_store_indices(ji.r, Len(right_bindings))
        invert == right_invert_indices(store_indices)
        cached_data == SortSet({Project(right_iter.rows[k], store_indices) :
                                    k \in 1..Len(right_iter.rows)})
    IN IF left_iter.rows = <<>> THEN left_iter
       ELSE IF right_iter.err # "none" THEN ErrS(right_iter.err)
       ELSE FlatMapS(left_iter, LAMBDA left_cache :
                LET start == build_mat_range_iter(cached_data, ji.l, left_cache)
                    run == advance_right(cached_data, start.idx, start.prefix)
                IN OkS([k \in 1..Len(run) |->
                            eliminate_from_tuple(left_cache \o Project(run[k], invert),
                                                 eliminate_indices)]))

\* a faulty SpreadOne: a tuple whose list is empty is kept once, extended by Null
SpreadOne_keeping_empty(u, tuple, eliminate_indices) ==
    LET res == eval_bytecode(u.expr_bytecode, tuple)
    IN IF ~res.ok THEN ErrS("EvalError")
       ELSE IF ~IsList(res.val) THEN ErrS("BadSpreadUnification")
       ELSE LET result_list == IF GetSlice(res.val) = <<>> THEN <<Null>>
                               ELSE GetSlice(res.val)
            IN OkS([k \in 1..Len(result_list) |->
                        eliminate_from_tuple(Append(tuple, result_list[k]), eliminate_indices)])

\* the multi arm of UnificationRA::iter for one tuple
SpreadOne(u, tuple, eliminate_indices) ==
    LET res == eval_bytecode(u.expr_bytecode, tuple)
    IN IF ~res.ok THEN ErrS("EvalError")
       ELSE IF ~IsList(res.val) THEN ErrS("BadSpreadUnification")
       ELSE LET result_list == GetSlice(res.val)
            IN OkS([k \in 1..Len(result_list) |->
                        eliminate_from_tuple(Append(tuple, result_list[k]), eliminate_indices)])

\* the single arm of UnificationRA::iter for one tuple
UnifyOne(u, tuple, eliminate_indices) ==
    LET res == eval_bytecode(u.expr_bytecode, tuple)
    IN IF ~res.ok THEN ErrS("EvalError")
       ELSE OkS(<<eliminate_from_tuple(Append(tuple, res.val), eliminate_indices)>>)

\* InnerJoin::join_type
join_type(j) ==
    LET ji == join_indices(j.joiner, bindings_after_eliminate(j.left),
                           bindings_after_eliminate(j.right))
    IN CASE j.right.kind = "Fixed" ->
                IF Len(j.right.data) = 0 THEN "null_join"
                ELSE IF Len(j.right.data) = 1 THEN "singleton_join" ELSE "fixed_join"
         [] j.right.kind = "TempStore" ->
                IF join_is_prefix(ji.r) THEN "mem_prefix_join" ELSE "mem_mat_join"
         [] j.right.kind \in {"Stored", "StoredWithValidity"} ->
                IF join_is_prefix(ji.r) THEN "stored_prefix_join" ELSE "stored_mat_join"
         [] j.right.kind \in {"Join", "Filter", "Unification"} -> "generic_mat_join"
         [] j.right.kind = "Reorder" -> "panic: joining on reordered"
         [] OTHER -> "panic: joining on NegJoin"

\* whether join `j` is run by the closure of a prefix_join function
RunsPrefixClosure(j) ==
    LET ji == join_indices(j.joiner, bindings_after_eliminate(j.left),
                           bindings_after_eliminate(j.right))
    IN /\ j.kind = "Join"
       /\ join_type(j) \in {"mem_prefix_join", "stored_prefix_join"}
       /\ JoinIndicesOk(ji)
       /\ j.right.kind = "Stored" => Len(left_to_prefix_indices(ji)) < Relations[j.right.storage].keys

RECURSIVE Iter(_, _)
\* RelAlgebra::iter(tx, delta_rule, stores) and the iter it dispatches to
Iter(r, delta_rule) ==
    CASE r.kind = "Fixed" -> OkS(r.data)
      [] r.kind = "TempStore" ->
            LET storage == Stores[r.storage_key]
                it == OkS(IF delta_rule = r.storage_key
                          THEN delta_all_iter(storage) ELSE all_iter(storage))
            IN IF r.filters = <<>> THEN it ELSE filter_iter(r.filters_bytecodes, it)
      [] r.kind = "Stored" ->
            LET it == OkS(scan_all(Relations[r.storage]))
            IN IF r.filters = <<>> THEN it ELSE filter_iter(r.filters_bytecodes, it)
      [] r.kind = "StoredWithValidity" ->
            LET it == OkS(skip_scan_all(Relations[r.storage], r.valid_at))
            IN IF r.filters = <<>> THEN it ELSE filter_iter(r.filters_bytecodes, it)
      [] r.kind = "Reorder" ->
            LET old_order == bindings_after_eliminate(r.relation)
                reorder_indices == [i \in 1..Len(r.new_order) |->
                                        IndexOf(r.new_order[i], old_order)]
            IN IF \E i \in 1..Len(reorder_indices) : reorder_indices[i] = 0
               THEN ErrS("panic: reorder indices mismatch")
               ELSE MapS(Iter(r.relation, delta_rule),
                         LAMBDA tuple : Project(tuple, reorder_indices))
      [] r.kind = "Filter" ->
            LET eliminate_indices ==
                    get_eliminate_indices(bindings_after_eliminate(r.parent), r.to_eliminate)
            IN FlatMapS(Iter(r.parent, delta_rule), LAMBDA t :
                    FilterOne(r.filters_bytecodes, t,
                              eliminate_from_tuple(t, eliminate_indices)))
      [] r.kind = "Unification" ->
            LET eliminate_indices ==
                    get_eliminate_indices(
                        Append(bindings_after_eliminate(r.parent), r.binding),
                        r.to_eliminate)
            IN FlatMapS(Iter(r.parent, delta_rule), LAMBDA tuple :
                    IF r.is_multi THEN SpreadOne(r, tuple, eliminate_indices)
                    ELSE UnifyOne(r, tuple, eliminate_indices))
      [] r.kind = "NegJoin" ->
            LET eliminate_indices ==
                    get_eliminate_indices(bindings_after_eliminate(r.left), r.to_eliminate)
                ji == join_indices(r.joiner, bindings_after_eliminate(r.left),
                                   bindings_after_eliminate(r.right))
            IN CASE r.right.kind \notin {"TempStore", "Stored"} -> ErrS("panic: unreachable")
                 [] ~JoinIndicesOk(ji) -> ErrS("panic: unwrap")
                 [] r.right.kind = "TempStore" ->
                        TempNegJoin(r.right, Iter(r.left, delta_rule), ji, eliminate_indices)
                 [] OTHER ->
                        StoredNegJoin(r.right, Iter(r.left, delta_rule), ji, eliminate_indices)
      [] r.kind = "Join" ->
            LET eliminate_indices == get_eliminate_indices(JoinBindings(r), r.to_eliminate)
                ji == join_indices(r.joiner, bindings_after_eliminate(r.left),
                                   bindings_after_eliminate(r.right))
                left_iter == Iter(r.left, delta_rule)
                mat == materialized_join(r, left_iter, Iter(r.right, delta_rule),
                                         eliminate_indices)
            IN CASE r.right.kind = "Reorder" -> ErrS("panic: joining on reordered")
                 [] r.right.kind = "NegJoin" -> ErrS("panic: joining on NegJoin")
                 [] ~JoinIndicesOk(ji) -> ErrS("panic: unwrap")
                 [] r.right.kind = "Fixed" ->
                        FixedJoin(r.right, left_iter, ji, eliminate_indices)
                 [] r.right.kind = "TempStore" ->
                        IF join_is_prefix(ji.r)
                        THEN TempPrefixJoin(r.right, left_iter, ji, eliminate_indices,
                                            delta_rule)
                        ELSE mat
                 [] r.right.kind = "Stored" ->
                        IF join_is_prefix(ji.r)
                        THEN StoredPrefixJoin(r.right, left_iter, ji, eliminate_indices,
                                              Len(bindings_after_eliminate(r.left)))
                        ELSE mat
                 [] r.right.kind = "StoredWithValidity" ->
                        IF join_is_prefix(ji.r)
                        THEN ValidityPrefixJoin(r.right, left_iter, ji, eliminate_indices)
                        ELSE mat
                 [] OTHER -> mat

\* the calls of the prefix-join closure made while the stream of `r` is
\* drained, one for each tuple of the left stream
ScanLog(r, delta_rule) ==
    IF RunsPrefixClosure(r)
    THEN prefix_join_calls(r.right,
                           join_indices(r.joiner, bindings_after_eliminate(r.left),
                                        bindings_after_eliminate(r.right)),
                           Len(Iter(r.left, delta_rule).rows), FALSE)
    ELSE <<>>

(***************************************************************************)
(* The planner's use of the algebra: a tree is built from leaves by the    *)
(* construction calls, then eliminate_temp_vars, then                      *)
(* fill_binding_indices_and_compile, then iter.                            *)
(***************************************************************************)
MaxOps == 2
MaxElimRuns == 2

Fixed2 == InlineFixedRA(<<"m", "n">>, <<<<Num(1), Num(5)>>, <<Num(2), Num(20)>>>>)
Fixed1 == InlineFixedRA(<<"m", "n">>, <<<<Num(1), Num(5)>>>>)
ScanL == derived(<<"x">>, "l")
ScanData == derived(<<"p", "q">>, "data")
ScanRl == derived(<<"a", "lst">>, "rl")
ScanR == relation(<<"y">>, "r", <<>>).ra
ScanS2 == relation(<<"k1", "k2", "w">>, "s2", <<>>).ra
ScanSv == relation(<<"id", "vt", "val">>, "sv", <<4>>).ra

Leaves == {unit, Fixed1, Fixed2, ScanL, ScanData, ScanRl, ScanR, ScanS2, ScanSv}

\* the right-key lists a join against `leaf` may name
RightKeySpecs(leaf) ==
    CASE leaf = Fixed1 \/ leaf = Fixed2 -> {<<"m">>}
      [] leaf = ScanL -> {<<"x">>}
      [] leaf = ScanData -> {<<"p">>, <<"q">>, <<"p", "q">>}
      [] leaf = ScanRl -> {<<"a">>}
      [] leaf = ScanR -> {<<"y">>}
      [] leaf = ScanS2 -> {<<"k1">>, <<"k2">>, <<"k1", "k2">>, <<"k1", "k2", "w">>}
      [] leaf = ScanSv -> {<<"id">>}
      [] OTHER -> {}

\* the joiners between `l` and `right`: every right key is matched with the
\* first binding of the left side; the empty joiner is the cartesian join
Joiners(l, right, specs) ==
    LET lb == bindings_before_eliminate(l)
    IN {[left_keys |-> <<>>, right_keys |-> <<>>]} \cup
       (IF lb = <<>> THEN {}
        ELSE {[left_keys |-> [i \in 1..Len(rk) |-> lb[1]], right_keys |-> rk] : rk \in specs})

\* the binding lists of two join sides are disjoint
Disjoint(l, right) ==
    Range(bindings_before_eliminate(l)) \cap Range(bindings_before_eliminate(right)) = {}

FilterCatalogue ==
    {App("ge", Var("x"), Const(Num(2))),
     App("le", Var("q"), Const(Num(2))),
     App("ge", Var("q"), Const(Num(3))),
     App("lt", Var("n"), Const(Num(10))),
     App("ge", Var("m"), Const(Num(1))),
     App("ge", Var("y"), Const(Num(5))),
     App("ge", Var("k2"), Const(Num(2))),
     App("le", Var("w"), Const(Num(2))),
     App("eq", Var("val"), Const(Num(13))),
     App("le", Var("x"), Var("q")),
     App("and", App("ge", Var("x"), Const(Num(2))), App("le", Var("q"), Const(Num(2)))),
     App("and", App("le", Var("x"), Var("q")), App("ge", Var("x"), Const(Num(2)))),
     Var("x"),
     App("ge", Var("zz"), Const(Num(1)))}

UnifyCatalogue ==
    {[binding |-> "c", expr |-> Const(Num(3)), is_multi |-> FALSE],
     [binding |-> "v", expr |-> Var("lst"), is_multi |-> TRUE],
     [binding |-> "v", expr |-> Var("a"), is_multi |-> TRUE]}

HeadVars == {"x", "p", "a", "v"}

\* the `used` sets the caller may pass: everything, or the rule head's share
UsedChoices(r) ==
    LET all == Range(bindings_before_eliminate(r))
    IN {all, all \cap HeadVars}

RECURSIVE StoreKeys(_)
\* the storage keys of the TempStore scans of a tree
StoreKeys(r) ==
    CASE r.kind = "TempStore" -> {r.storage_key}
      [] r.kind \in {"Join", "NegJoin"} -> StoreKeys(r.left) \cup StoreKeys(r.right)
      [] r.kind \in {"Filter", "Unification"} -> StoreKeys(r.parent)
      [] r.kind = "Reorder" -> StoreKeys(r.relation)
      [] OTHER -> {}

\* the bindings a scan of each stored relation is given
RelationBindings ==
    [r |-> <<"y">>, s2 |-> <<"k1", "k2", "w">>, sv |-> <<"id", "vt", "val">>, sn |-> <<"t">>]

\* the validity arguments of RelAlgebra::relation: None or Some(4)
ValidityArgs == {<<>>, <<4>>}

(***************************************************************************)
(* The imperative layer (runtime/imperative.rs).  A program is a sequence  *)
(* of statements; execute_imperative_stmts runs a block, and the blocks    *)
(* under way form a stack of frames.  Single programs are run by the       *)
(* database, which is represented by a handful of programs with known      *)
(* results.                                                                *)
(***************************************************************************)
StrV(code) == <<5, code>>
\* a value that op_to_bool does not turn into a boolean
Opaque == <<8>>
\* DataValue::from("FAILED")
FAILED == StrV(1)

NamedRows(headers, rows) == [headers |-> headers, rows |-> rows, next |-> <<>>]
\* NamedRows::default()
DefaultRows == NamedRows(<<>>, <<>>)

\* ImperativeStmt
StmtProgram(prog) == [kind |-> "Program", prog |-> prog]
StmtIgnoreErrorProgram(prog) == [kind |-> "IgnoreErrorProgram", prog |-> prog]
StmtIf(condition, then_branch, else_branch, negated) ==
    [kind |-> "If", condition |-> condition, then_branch |-> then_branch,
     else_branch |-> else_branch, negated |-> negated]
StmtLoop(label, body) == [kind |-> "Loop", label |-> label, body |-> body]
StmtBreak(target) == [kind |-> "Break", target |-> target]
StmtContinue(target) == [kind |-> "Continue", target |-> target]
StmtReturn(returns) == [kind |-> "Return", returns |-> returns]
StmtTempSwap(left, right) == [kind |-> "TempSwap", left |-> left, right |-> right]
StmtTempDebug(temp) == [kind |-> "TempDebug", temp |-> temp]

\* ImperativeCondition: Left(relation name) or Right(program)
CondRel(name) == [side |-> "Left", name |-> name]
CondProg(prog) == [side |-> "Right", name |-> prog]

\* the stored number the programs "cycle" and "small" work on wraps at CycleLen
CycleLen == 3

\* execute_single_program: [ok, res, tx]; the programs the database runs are
\*   cycle  adds one to the stored number (wrapping) and returns it
\*   small  returns whether the stored number is below 2
\*   bad    fails
\*   one, two, yes, no, none, blank, zero, odd, first   return fixed rows
execute_single_program(prog, t) ==
    LET fixed == [one |-> <<<<Num(1)>>>>,
                  two |-> <<<<Num(2)>>>>,
                  yes |-> <<<<Num(0), BoolV(TRUE)>>>>,
                  no |-> <<<<BoolV(TRUE), BoolV(FALSE)>>>>,
                  none |-> <<>>,
                  blank |-> <<<<>>>>,
                  zero |-> <<<<Num(0)>>>>,
                  odd |-> <<<<Opaque>>>>,
                  first |-> <<<<BoolV(FALSE)>>, <<BoolV(TRUE)>>>>]
    IN CASE prog = "bad" -> [ok |-> FALSE, res |-> DefaultRows, tx |-> t]
         [] prog = "cycle" ->
                LET n == (t.cnt + 1) % CycleLen
                IN [ok |-> TRUE, res |-> NamedRows(<<"n">>, <<<<Num(n)>>>>),
                    tx |-> [t EXCEPT !.cnt = n]]
         [] prog = "small" ->
                [ok |-> TRUE, res |-> NamedRows(<<"s">>, <<<<BoolV(t.cnt < 2)>>>>), tx |-> t]
         [] OTHER -> [ok |-> TRUE, res |-> NamedRows(<<"c">>, fixed[prog]), tx |-> t]

\* tx.get_relation(rel, false) followed by as_named_rows: [ok, res]
get_relation(rel, t) ==
    IF rel \in DOMAIN t.temps
    THEN [ok |-> TRUE, res |-> NamedRows(<<"c">>, t.temps[rel])]
    ELSE [ok |-> FALSE, res |-> DefaultRows]

\* op_to_bool on one value: the boolean it coerces to, or the value itself
op_to_bool(v) ==
    CASE v = Null -> BoolV(FALSE)
      [] v[1] = 1 -> v
      [] v[1] = 2 -> BoolV(v[2] # 0)
      [] v[1] = 3 -> BoolV(Len(v) > 1)
      [] v = Bot -> BoolV(FALSE)
      [] OTHER -> v

\* a faulty condition: the first column of the first row is read
execute_imperative_condition_first_column(p, t) ==
    LET r == IF p.side = "Left" THEN get_relation(p.name, t)
             ELSE execute_single_program(p.name, t)
        t2 == IF p.side = "Left" THEN t ELSE r.tx
    IN IF ~r.ok THEN [ok |-> FALSE, err |-> "program error", val |-> FALSE, tx |-> t]
       ELSE IF r.res.rows = <<>> THEN [ok |-> TRUE, err |-> "none", val |-> FALSE, tx |-> t2]
       ELSE LET row == r.res.rows[1]
            IN IF row = <<>> THEN [ok |-> TRUE, err |-> "none", val |-> FALSE, tx |-> t2]
               ELSE LET b == op_to_bool(row[1])
                    IN IF b[1] = 1
                       THEN [ok |-> TRUE, err |-> "none", val |-> b[2] = 1, tx |-> t2]
                       ELSE [ok |-> FALSE, err |-> "PredicateTypeError", val |-> FALSE,
                             tx |-> t2]

\* execute_imperative_condition: [ok, err, val, tx]
execute_imperative_condition(p, t) ==
    LET r == IF p.side = "Left" THEN get_relation(p.name, t)
             ELSE execute_single_program(p.name, t)
        t2 == IF p.side = "Left" THEN t ELSE r.tx
    IN IF ~r.ok THEN [ok |-> FALSE, err |-> "program error", val |-> FALSE, tx |-> t]
       ELSE IF r.res.rows = <<>> THEN [ok |-> TRUE, err |-> "none", val |-> FALSE, tx |-> t2]
       ELSE LET row == r.res.rows[1]
            IN IF row = <<>> THEN [ok |-> TRUE, err |-> "none", val |-> FALSE, tx |-> t2]
               ELSE LET b == op_to_bool(row[Len(row)])
                    IN IF b[1] = 1
                       THEN [ok |-> TRUE, err |-> "none", val |-> b[2] = 1, tx |-> t2]
                       ELSE [ok |-> FALSE, err |-> "PredicateTypeError", val |-> FALSE,
                             tx |-> t2]

\* a frame of execute_imperative_stmts: the block `ps`, the position `pc` of
\* the statement the for loop is at, the local `ret`, and what called it:
\* execute_imperative ("top"), an If statement ("if") or a Loop statement
\* ("loop", with its label; pc = 0 is the top of an iteration)
Frame(kind, label, ps, pc) ==
    [kind |-> kind, label |-> label, ps |-> ps, pc |-> pc, ret |-> DefaultRows]

\* no imperative program is running
ImpIdle ==
    /\ frames = <<>>
    /\ poison = FALSE
    /\ status = [state |-> "idle", err |-> "none", result |-> DefaultRows, ps |-> <<>>]
    /\ tx = [cnt |-> 0, temps |-> [a |-> <<<<BoolV(TRUE)>>>>, b |-> <<>>, c |-> <<<<Num(7)>>>>]]
    /\ db = [cnt |-> 0]

(***************************************************************************)
(* Locks.  A reader-writer lock is held shared by any number of holders or *)
(* exclusively by one.                                                     *)
(***************************************************************************)
Threads == {"t1", "t2", "t3"}
RelationNames == {"r", "s"}

\* an RwLock that nobody holds
Unlocked == [readers |-> {}, writer |-> "none"]
\* read() returns at once when no holder has the lock exclusively
CanRead(l) == l.writer = "none"
\* write() returns at once when nobody holds the lock
CanWrite(l) == l.writer = "none" /\ l.readers = {}
ReadLocked(l, who) == [l EXCEPT !.readers = @ \cup {who}]
WriteLocked(l, who) == [l EXCEPT !.writer = who]
\* the guard of `who` is dropped
Released(l, who) ==
    [readers |-> l.readers \ {who}, writer |-> IF l.writer = who THEN "none" ELSE l.writer]

\* the holder name of the del_range closure spawned by a thread
ClosureOf == [t1 |-> "d1", t2 |-> "d2", t3 |-> "d3"]

\* no thread has called execute_imperative
ConcIdle ==
    /\ callers = [t \in Threads |-> [pc |-> "idle", write_lock_names |-> {}]]
    /\ relation_locks = [n \in RelationNames |-> Unlocked]
    /\ lock = Unlocked
    /\ closures = [t \in Threads |-> "none"]

\* the threads that open transactions on the storage
SqlThreads == {"t1", "t2"}

\* const N_CACHED_QUERIES; GET_QUERY, PUT_QUERY, DEL_QUERY and EXISTS_QUERY
\* are the indices below it
N_CACHED_QUERIES == 4

\* how many connections are opened at most
MaxConns == 2

\* the stmts of a new SqliteTx: four times Mutex::new(None), 0 standing for None
NoStmts == [idx \in 0..(N_CACHED_QUERIES - 1) |-> 0]

\* a thread without a SqliteTx
NoTx == [pc |-> "none", write |-> FALSE, conn |-> 0, stmts |-> NoStmts, committed |-> FALSE]

\* new_cozo_sqlite: the pool is empty and no transaction has been made
SqlIdle ==
    /\ pool = <<>>
    /\ sqliteTx = [t \in SqlThreads |-> NoTx]
    /\ nConns = 0

\* dijkstra has not been called
DijIdle == dij = [pc |-> "idle"]

\* no SkipIter has been made
SkipIdle ==
    /\ skipIter = [stmt |-> Relations["sv"], valid_at |-> 0,
                   next_bound |-> <<>>, upper_bound |-> <<>>]
    /\ skipOut = [rows |-> <<>>, done |-> FALSE, open |-> FALSE, lower |-> <<>>]

\* the tree starts as a fixed or temp-store leaf, or as the result of
\* RelAlgebra::relation, which may fail
Init ==
    /\ SkipIdle
    /\ ImpIdle
    /\ ConcIdle
    /\ SqlIdle
    /\ DijIdle
    /\ \/ /\ tree \in {unit, Fixed1, Fixed2, ScanL, ScanData, ScanRl}
          /\ stage = "build"
          /\ lastOp = [op |-> "leaf", arg |-> <<>>]
          /\ out = OkS(<<>>)
       \/ \E storage \in DOMAIN Relations : \E validity \in ValidityArgs :
            LET res == relation(RelationBindings[storage], storage, validity)
            IN /\ tree = res.ra
               /\ stage = IF res.ok THEN "build" ELSE "failed"
               /\ lastOp = [op |-> "relation",
                            arg |-> [storage |-> storage, validity |-> validity]]
               /\ out = IF res.ok THEN OkS(<<>>) ELSE ErrS("InvalidTimeTravelScanning")
    /\ used = {}
    /\ elimRuns = 0
    /\ prevTree = tree
    /\ nOps = 0
    /\ deltaRule = "none"
    /\ beforeElim = tree
    /\ scanLog = <<>>

\* a construction call replaces the tree
Built(t, op, arg) ==
    /\ stage = "build"
    /\ nOps < MaxOps
    /\ tree' = t
    /\ prevTree' = tree
    /\ beforeElim' = t
    /\ lastOp' = [op |-> op, arg |-> arg]
    /\ nOps' = nOps + 1
    /\ UNCHANGED <<stage, used, elimRuns, deltaRule, out, scanLog, skipVars, impVars, concVars, sqlVars, dijVars>>

\* tree.join(leaf, left_keys, right_keys)
JoinRight ==
    /\ stage = "build"
    /\ \E leaf \in Leaves : \E jn \in Joiners(tree, leaf, RightKeySpecs(leaf)) :
           /\ Disjoint(tree, leaf)
           /\ Built(join(tree, leaf, jn.left_keys, jn.right_keys), "join", jn)

\* leaf.join(tree, left_keys, right_keys)
JoinLeft ==
    /\ stage = "build"
    /\ \E leaf \in {unit, ScanL} :
           \E jn \in Joiners(leaf, tree,
                             IF bindings_before_eliminate(tree) = <<>> THEN {}
                             ELSE {<<bindings_before_eliminate(tree)[1]>>}) :
               /\ Disjoint(leaf, tree)
               /\ Built(join(leaf, tree, jn.left_keys, jn.right_keys), "join_left", jn)

\* tree.neg_join(leaf, left_keys, right_keys)
NegJoinRight ==
    /\ stage = "build"
    /\ \E leaf \in {ScanR, ScanL, ScanData, ScanS2} :
           \E jn \in Joiners(tree, leaf, RightKeySpecs(leaf)) :
               /\ jn.left_keys # <<>>
               /\ Built(neg_join(tree, leaf, jn.left_keys, jn.right_keys), "neg_join", jn)

\* ScanL.neg_join(tree, left_keys, right_keys)
NegJoinLeft ==
    /\ stage = "build"
    /\ bindings_before_eliminate(tree) # <<>>
    /\ LET jn == [left_keys |-> <<"x">>,
                  right_keys |-> <<bindings_before_eliminate(tree)[1]>>]
       IN Built(neg_join(ScanL, tree, jn.left_keys, jn.right_keys), "neg_join_left", jn)

\* tree.filter(f)
ApplyFilter ==
    /\ stage = "build"
    /\ \E f \in FilterCatalogue :
           /\ ExprBindings(f) \subseteq Range(bindings_before_eliminate(tree)) \cup {"zz"}
           /\ Built(RAFilter(tree, f), "filter", f)

\* tree.unify(binding, expr, is_multi)
Unify ==
    /\ stage = "build"
    /\ \E u \in UnifyCatalogue :
           /\ u.binding \notin Range(bindings_before_eliminate(tree))
           /\ ExprBindings(u.expr) \subseteq Range(bindings_before_eliminate(tree))
           /\ Built(unify(tree, u.binding, u.expr, u.is_multi), "unify", u)

RECURSIVE Reverse(_)
Reverse(s) == IF s = <<>> THEN <<>> ELSE Append(Reverse(Tail(s)), Head(s))

\* tree.reorder(new_order)
Reorder ==
    /\ stage = "build"
    /\ bindings_before_eliminate(tree) # <<>>
    /\ LET new_order == Reverse(bindings_before_eliminate(tree))
       IN Built(reorder(tree, new_order), "reorder", new_order)

\* tree.eliminate_temp_vars(&used); a repeated call passes the same set
EliminateTempVars ==
    /\ stage \in {"build", "eliminated"}
    /\ elimRuns < MaxElimRuns
    /\ \E u \in (IF elimRuns = 0 THEN UsedChoices(tree) ELSE {used}) :
        /\ used' = u
        /\ tree' = eliminate_temp_vars(tree, u)
    /\ beforeElim' = tree
    /\ stage' = "eliminated"
    /\ elimRuns' = elimRuns + 1
    /\ UNCHANGED <<prevTree, lastOp, nOps, deltaRule, out, scanLog, skipVars, impVars, concVars, sqlVars, dijVars>>

\* tree.fill_binding_indices_and_compile()
Compile ==
    /\ stage = "eliminated"
    /\ LET c == fill_binding_indices_and_compile(tree)
       IN /\ tree' = c.ra
          /\ stage' = IF c.ok THEN "compiled" ELSE "failed"
    /\ UNCHANGED <<used, elimRuns, prevTree, lastOp, nOps, deltaRule, beforeElim, out, scanLog, skipVars, impVars, concVars, sqlVars, dijVars>>

\* tree.iter(tx, delta_rule, stores), drained
Iterate ==
    /\ stage = "compiled"
    /\ \E dr \in {"none"} \cup StoreKeys(tree) :
        /\ deltaRule' = dr
        /\ out' = Iter(tree, dr)
        /\ scanLog' = ScanLog(tree, dr)
    /\ stage' = "iterated"
    /\ UNCHANGED <<tree, used, elimRuns, prevTree, lastOp, nOps, beforeElim, skipVars, impVars, concVars, sqlVars, dijVars>>

Next ==
    \/ JoinRight
    \/ JoinLeft
    \/ NegJoinRight
    \/ NegJoinLeft
    \/ ApplyFilter
    \/ Unify
    \/ Reorder
    \/ EliminateTempVars
    \/ Compile
    \/ Iterate

Spec == Init /\ [][Next]_vars

(***************************************************************************)
(* The validity skip-scan of storage/sqlite.rs on its own: a table of a    *)
(* relation keyed by (id, validity) is chosen, a SkipIter is opened on a   *)
(* key range and drained one next() at a time.                             *)
(***************************************************************************)
\* the keys a table may hold: ids 1 and 2, timestamps up to 5, both kinds
SkipKeys ==
    {<<Num(1), Vld(ts, a)>> : ts \in {1, 3, 5}, a \in BOOLEAN}
        \cup {<<Num(2), Vld(2, a)>> : a \in BOOLEAN}

\* the row stored under a key: a retraction carries Null
SkipRow(k) == Append(k, IF VldIsAssert(k[2]) THEN Num(10 * k[1][2] + VldTs(k[2])) ELSE Null)

\* the key ranges scanned: everything, or the keys beginning with one id
SkipRanges ==
    {[lower |-> <<>>, upper |-> <<Bot>>]}
        \cup {[lower |-> <<Num(i)>>, upper |-> <<Num(i), Bot>>] : i \in {1, 2}}

SkipValidAts == {0, 2, 4, 5}

\* the tree of the evaluator, untouched by the scan
RAIdle ==
    /\ tree = unit /\ stage = "build" /\ used = {} /\ elimRuns = 0 /\ prevTree = unit
    /\ lastOp = [op |-> "leaf", arg |-> <<>>] /\ nOps = 0 /\ deltaRule = "none"
    /\ beforeElim = unit /\ out = OkS(<<>>) /\ scanLog = <<>>

InitSkip ==
    /\ RAIdle
    /\ ImpIdle
    /\ ConcIdle
    /\ SqlIdle
    /\ DijIdle
    /\ \E ks \in SUBSET SkipKeys :
         skipIter = [stmt |-> [keys |-> 2, non_keys |-> 1, rows |-> {SkipRow(k) : k \in ks}],
                     valid_at |-> 0, next_bound |-> <<>>, upper_bound |-> <<>>]
    /\ skipOut = [rows |-> <<>>, done |-> FALSE, open |-> FALSE, lower |-> <<>>]

\* tx.range_skip_scan_tuple(lower, upper, valid_at)
RangeSkipScanTuple ==
    /\ ~skipOut.open
    /\ \E rg \in SkipRanges : \E valid_at \in SkipValidAts :
         /\ skipIter' = range_skip_scan_tuple(skipIter.stmt, rg.lower, rg.upper, valid_at)
         /\ skipOut' = [skipOut EXCEPT !.open = TRUE, !.lower = rg.lower]
    /\ UNCHANGED <<raVars, impVars, concVars, sqlVars, dijVars>>

\* SkipIter::next
SkipNext ==
    /\ skipOut.open
    /\ ~skipOut.done
    /\ LET n == next_inner(skipIter)
       IN /\ skipIter' = n.it
          /\ skipOut' = IF n.ret = <<>> THEN [skipOut EXCEPT !.done = TRUE]
                        ELSE [skipOut EXCEPT !.rows = skipOut.rows \o n.ret]
    /\ UNCHANGED <<raVars, impVars, concVars, sqlVars, dijVars>>

NextSkip ==
    \/ RangeSkipScanTuple
    \/ SkipNext

SpecSkip == InitSkip /\ [][NextSkip]_vars

(***************************************************************************)
(* execute_imperative, one statement at a time.  Every step below is what  *)
(* the thread running the program does between two looks at the poison     *)
(* flag; Kill is another thread setting the flag.                          *)
(***************************************************************************)
Top == frames[Len(frames)]
Pop(s) == SubSeq(s, 1, Len(s) - 1)

\* the outcome of a step: the stack, how execute_imperative stands, the tx
Running(s, t) ==
    [frames |-> s, state |-> "running", err |-> "none", result |-> DefaultRows, tx |-> t]
\* an Err(..) leaves every frame through `?`
Failed(err, t) ==
    [frames |-> <<>>, state |-> "error", err |-> err, result |-> DefaultRows, tx |-> t]
\* execute_imperative returns Ok(res) after commit_tx
Returned(res, t) ==
    [frames |-> <<>>, state |-> "done", err |-> "none", result |-> res, tx |-> t]

\* the for loop of the top frame stores `ret` and moves to the next statement
Advance(s, ret) ==
    [s EXCEPT ![Len(s)] = [@ EXCEPT !.ret = ret, !.pc = @ + 1]]

\* ControlCode
Termination(res) == [kind |-> "Termination", label |-> "none", res |-> res]
Break(target) == [kind |-> "Break", label |-> target, res |-> DefaultRows]
Continue(target) == [kind |-> "Continue", label |-> target, res |-> DefaultRows]

\* a faulty Propagate: a Loop takes every Break and Continue, whatever its label
RECURSIVE Propagate_ignoring_labels(_, _, _)
Propagate_ignoring_labels(s, ctrl, t) ==
    LET f == s[Len(s)]
    IN CASE f.kind = "top" ->
                IF ctrl.kind = "Termination" THEN Returned(ctrl.res, t)
                ELSE Failed("DanglingControlFlow", t)
         [] f.kind = "if" -> Propagate_ignoring_labels(Pop(s), ctrl, t)
         [] OTHER ->
                IF ctrl.kind = "Termination" THEN Propagate_ignoring_labels(Pop(s), ctrl, t)
                ELSE IF ctrl.kind = "Break"
                THEN Running([Pop(s) EXCEPT ![Len(s) - 1] = [@ EXCEPT !.pc = @ + 1]], t)
                ELSE Running([s EXCEPT ![Len(s)] = [@ EXCEPT !.pc = 0]], t)

\* the block of the top frame returns Right(ctrl): an If hands it on, a Loop
\* takes a Break or Continue that has no label or its own and hands on any
\* other, execute_imperative takes a Termination and rejects the rest
RECURSIVE Propagate(_, _, _)
Propagate(s, ctrl, t) ==
    LET f == s[Len(s)]
    IN CASE f.kind = "top" ->
                IF ctrl.kind = "Termination" THEN Returned(ctrl.res, t)
                ELSE Failed("DanglingControlFlow", t)
         [] f.kind = "if" -> Propagate(Pop(s), ctrl, t)
         [] OTHER ->
                IF ctrl.kind = "Termination" THEN Propagate(Pop(s), ctrl, t)
                ELSE IF ctrl.label = "none" \/ ctrl.label = f.label
                THEN IF ctrl.kind = "Break"
                     THEN Running([Pop(s) EXCEPT ![Len(s) - 1] = [@ EXCEPT !.pc = @ + 1]], t)
                     ELSE Running([s EXCEPT ![Len(s)] = [@ EXCEPT !.pc = 0]], t)
                ELSE Propagate(Pop(s), ctrl, t)

\* ImperativeStmt::Program
exec_program(stmt, s, t) ==
    LET r == execute_single_program(stmt.prog, t)
    IN IF r.ok THEN Running(Advance(s, r.res), r.tx) ELSE Failed("program error", t)

\* a faulty IgnoreErrorProgram: the error of the program is handed on
exec_ignore_error_program_failing(stmt, s, t) ==
    LET r == execute_single_program(stmt.prog, t)
    IN IF r.ok THEN Running(Advance(s, r.res), r.tx) ELSE Failed("program error", t)

\* ImperativeStmt::IgnoreErrorProgram
exec_ignore_error_program(stmt, s, t) ==
    LET r == execute_single_program(stmt.prog, t)
    IN IF r.ok THEN Running(Advance(s, r.res), r.tx)
       ELSE Running(Advance(s, NamedRows(<<"status">>, <<<<FAILED>>>>)), t)

\* ImperativeStmt::If: the branch chosen is run as a block of its own
exec_if(stmt, s, t) ==
    LET c == execute_imperative_condition(stmt.condition, t)
        cond_val == IF stmt.negated THEN ~c.val ELSE c.val
        to_execute == IF cond_val THEN stmt.then_branch ELSE stmt.else_branch
    IN IF ~c.ok THEN Failed(c.err, t)
       ELSE Running(Append(s, Frame("if", "none", to_execute, 1)), c.tx)

\* ImperativeStmt::Loop: ret is reset and the first iteration is about to start
exec_loop(stmt, s, t) ==
    Running(Append([s EXCEPT ![Len(s)] = [@ EXCEPT !.ret = DefaultRows]],
                   Frame("loop", stmt.label, stmt.body, 0)), t)

\* the returns of a Return statement, run from the last to the first, each
\* result chained in front of the ones after it: [ok, current, tx]
RECURSIVE run_returns(_, _, _, _)
run_returns(returns, i, current, t) ==
    IF i = 0 THEN [ok |-> TRUE, current |-> current, tx |-> t]
    ELSE LET nxt == returns[i]
             r == IF nxt.side = "Left" THEN execute_single_program(nxt.name, t)
                  ELSE get_relation(nxt.name, t)
             t2 == IF nxt.side = "Left" THEN r.tx ELSE t
         IN IF ~r.ok THEN [ok |-> FALSE, current |-> current, tx |-> t]
            ELSE run_returns(returns, i - 1, <<[r.res EXCEPT !.next = current]>>, t2)

\* a faulty Return: the result of the first item is returned without its chain
exec_return_first_only(stmt, s, t) ==
    IF stmt.returns = <<>> THEN Propagate(s, Termination(DefaultRows), t)
    ELSE LET r == run_returns(stmt.returns, Len(stmt.returns), <<>>, t)
         IN IF ~r.ok THEN Failed("program error", t)
            ELSE Propagate(s, Termination([r.current[1] EXCEPT !.next = <<>>]), r.tx)

\* ImperativeStmt::Return
exec_return(stmt, s, t) ==
    IF stmt.returns = <<>> THEN Propagate(s, Termination(DefaultRows), t)
    ELSE LET r == run_returns(stmt.returns, Len(stmt.returns), <<>>, t)
         IN IF ~r.ok THEN Failed("program error", t)
            ELSE Propagate(s, Termination(r.current[1]), r.tx)

\* the name the left relation is parked under
TempName == "_*temp*"

\* tx.rename_temp_relation(old, new): [ok, temps]; it fails when there is no
\* temp relation `old` and when there is a temp relation `new` already
rename_temp_relation(old, new, temps) ==
    IF old \notin DOMAIN temps \/ new \in DOMAIN temps
    THEN [ok |-> FALSE, temps |-> temps]
    ELSE [ok |-> TRUE,
          temps |-> [n \in (DOMAIN temps \ {old}) \cup {new} |->
                        IF n = new THEN temps[old] ELSE temps[n]]]

\* a faulty TempSwap: the parked relation is not given its new name
exec_temp_swap_two_renames(stmt, s, t) ==
    LET r1 == rename_temp_relation(stmt.left, TempName, t.temps)
        r2 == rename_temp_relation(stmt.right, stmt.left, r1.temps)
    IN IF ~r1.ok THEN Failed("program error", t)
       ELSE IF ~r2.ok THEN Failed("program error", [t EXCEPT !.temps = r1.temps])
       ELSE Running([s EXCEPT ![Len(s)] = [@ EXCEPT !.ret = DefaultRows,
                                                     !.pc = Len(s[Len(s)].ps) + 1]],
                    [t EXCEPT !.temps = r2.temps])

\* ImperativeStmt::TempSwap: three renames, each leaving through `?` when it
\* fails, then `break` leaves the for loop
exec_temp_swap(stmt, s, t) ==
    LET r1 == rename_temp_relation(stmt.left, TempName, t.temps)
        r2 == rename_temp_relation(stmt.right, stmt.left, r1.temps)
        r3 == rename_temp_relation(TempName, stmt.right, r2.temps)
    IN IF ~r1.ok THEN Failed("program error", t)
       ELSE IF ~r2.ok THEN Failed("program error", [t EXCEPT !.temps = r1.temps])
       ELSE IF ~r3.ok THEN Failed("program error", [t EXCEPT !.temps = r2.temps])
       ELSE Running([s EXCEPT ![Len(s)] = [@ EXCEPT !.ret = DefaultRows,
                                                     !.pc = Len(s[Len(s)].ps) + 1]],
                    [t EXCEPT !.temps = r3.temps])

\* ImperativeStmt::TempDebug
exec_temp_debug(stmt, s, t) ==
    IF get_relation(stmt.temp, t).ok THEN Running(Advance(s, DefaultRows), t)
    ELSE Failed("program error", t)

\* the for loop of the top frame is over: its block returns Left(ret)
block_end(s, t) ==
    LET f == s[Len(s)]
    IN CASE f.kind = "top" -> Returned(f.ret, t)
         [] f.kind = "if" -> Running(Advance(Pop(s), f.ret), t)
         [] OTHER -> Running([s EXCEPT ![Len(s)] = [@ EXCEPT !.pc = 0]], t)

\* Return items: Left(program) or Right(relation name)
RetProg(prog) == [side |-> "Left", name |-> prog]
RetRel(name) == [side |-> "Right", name |-> name]

Labels == {"none", "a", "b"}
Targets == {"none", "a", "b", "z"}

\* conditions of every shape: no rows, an empty first row, a true or false
\* last column, a second row, values to coerce, a relation, a failing program
Conditions ==
    {CondProg(p) : p \in {"yes", "no", "none", "blank", "zero", "one", "odd", "first", "bad"}}
        \cup {CondRel("a"), CondRel("b"), CondRel("missing")}

\* a Break or Continue
Ctrl(kind, target) == IF kind = "Break" THEN StmtBreak(target) ELSE StmtContinue(target)

\* the programs run
ImpPrograms ==
    {<<StmtIf(c, <<StmtProgram("one")>>, <<StmtProgram("two")>>, neg)>> :
        c \in Conditions, neg \in BOOLEAN}
    \cup {<<StmtLoop(l1, <<StmtProgram("cycle"),
                           StmtLoop(l2, <<StmtIf(CondProg("small"), <<Ctrl(k, tg)>>,
                                                 <<StmtBreak("none")>>, FALSE)>>),
                           StmtBreak("none")>>),
            StmtProgram("two")>> :
            l1 \in Labels, l2 \in Labels, k \in {"Break", "Continue"}, tg \in Targets}
    \cup {<<StmtIgnoreErrorProgram(p), StmtProgram("cycle")>> : p \in {"bad", "one", "cycle"}}
    \cup {<<StmtIgnoreErrorProgram("bad")>>,
          <<StmtProgram("cycle"), StmtProgram("bad"), StmtProgram("cycle")>>,
          <<StmtLoop("none", <<StmtProgram("cycle")>>)>>,
          <<StmtLoop("a", <<StmtIgnoreErrorProgram("bad"), StmtLoop("none", <<>>)>>)>>,
          <<StmtProgram("cycle"), StmtIf(CondProg("yes"), <<Ctrl("Break", "none")>>, <<>>, FALSE)>>,
          <<StmtProgram("cycle"), StmtContinue("a")>>,
          <<StmtLoop("a", <<StmtProgram("cycle"),
                            StmtIf(CondProg("small"), <<>>,
                                   <<StmtReturn(<<RetProg("cycle"), RetRel("a")>>)>>, FALSE)>>)>>,
          <<StmtProgram("cycle"), StmtReturn(<<>>), StmtProgram("cycle")>>,
          <<StmtReturn(<<RetRel("missing")>>)>>,
          <<StmtLoop("a", <<StmtIf(CondProg("yes"),
                                   <<StmtReturn(<<RetProg("cycle"), RetRel("c"), RetProg("cycle")>>),
                                     StmtProgram("cycle")>>,
                                   <<>>, FALSE),
                            StmtProgram("cycle")>>),
            StmtProgram("cycle")>>,
          <<StmtReturn(<<RetProg("one"), RetProg("bad")>>)>>,
          <<StmtTempSwap("a", "b"), StmtProgram("one")>>,
          <<StmtIf(CondRel("a"), <<StmtTempSwap("a", "b")>>, <<>>, FALSE),
            StmtIf(CondRel("a"), <<StmtProgram("one")>>, <<StmtProgram("two")>>, FALSE)>>,
          <<StmtTempSwap("a", "missing")>>,
          <<StmtProgram("cycle"), StmtTempSwap("missing", "a")>>,
          <<StmtTempSwap("a", "a")>>,
          <<StmtTempSwap("c", "a"), StmtTempSwap("b", "c")>>,
          <<StmtTempDebug("a"), StmtProgram("cycle")>>,
          <<StmtTempDebug("missing")>>}

InitImp ==
    /\ RAIdle
    /\ SkipIdle
    /\ ImpIdle
    /\ ConcIdle
    /\ SqlIdle
    /\ DijIdle

\* the step of the running thread has outcome `r`; commit_tx makes the
\* transaction's data the committed data
Outcome(r) ==
    /\ frames' = r.frames
    /\ status' = [state |-> r.state, err |-> r.err, result |-> r.result, ps |-> status.ps]
    /\ tx' = r.tx
    /\ db' = IF r.state = "done" THEN [cnt |-> r.tx.cnt] ELSE db
    /\ UNCHANGED <<poison, raVars, skipVars, concVars, sqlVars, dijVars>>

\* the top frame is at a statement of kind `kind` and the poison check passes
AtStmt(kind) ==
    /\ status.state = "running"
    /\ ~poison
    /\ Top.pc \in 1..Len(Top.ps)
    /\ Top.ps[Top.pc].kind = kind

\* db.execute_imperative(cur_vld, ps), up to the first statement
ExecuteImperative ==
    /\ status.state = "idle"
    /\ \E ps \in ImpPrograms :
         /\ frames' = <<Frame("top", "none", ps, 1)>>
         /\ status' = [status EXCEPT !.state = "running", !.ps = ps]
    /\ UNCHANGED <<tx, db, poison, raVars, skipVars, concVars, sqlVars, dijVars>>

\* another thread kills the running query
Kill ==
    /\ status.state = "running"
    /\ ~poison
    /\ poison' = TRUE
    /\ UNCHANGED <<frames, status, tx, db, raVars, skipVars, concVars, sqlVars, dijVars>>

\* poison.check()? fails, before a statement or at the top of an iteration
Killed ==
    /\ status.state = "running"
    /\ poison
    /\ Top.pc \in 0..Len(Top.ps)
    /\ Outcome(Failed("killed", tx))

\* a faulty LoopTop: the body is entered without a look at the flag
LoopTop_unchecked ==
    /\ status.state = "running"
    /\ Top.pc = 0
    /\ Outcome(Running([frames EXCEPT ![Len(frames)] = [@ EXCEPT !.pc = 1]], tx))

\* the top of a loop iteration: poison.check() passes and the body is entered
LoopTop ==
    /\ status.state = "running"
    /\ ~poison
    /\ Top.pc = 0
    /\ Outcome(Running([frames EXCEPT ![Len(frames)] = [@ EXCEPT !.pc = 1]], tx))

ExecProgram == AtStmt("Program") /\ Outcome(exec_program(Top.ps[Top.pc], frames, tx))

ExecIgnoreErrorProgram ==
    /\ AtStmt("IgnoreErrorProgram")
    /\ Outcome(exec_ignore_error_program(Top.ps[Top.pc], frames, tx))

ExecIf == AtStmt("If") /\ Outcome(exec_if(Top.ps[Top.pc], frames, tx))

ExecLoop == AtStmt("Loop") /\ Outcome(exec_loop(Top.ps[Top.pc], frames, tx))

ExecBreak == AtStmt("Break") /\ Outcome(Propagate(frames, Break(Top.ps[Top.pc].target), tx))

ExecContinue ==
    /\ AtStmt("Continue")
    /\ Outcome(Propagate(frames, Continue(Top.ps[Top.pc].target), tx))

ExecReturn == AtStmt("Return") /\ Outcome(exec_return(Top.ps[Top.pc], frames, tx))

ExecTempSwap == AtStmt("TempSwap") /\ Outcome(exec_temp_swap(Top.ps[Top.pc], frames, tx))

ExecTempDebug == AtStmt("TempDebug") /\ Outcome(exec_temp_debug(Top.ps[Top.pc], frames, tx))

\* the block of the top frame has no statement left
BlockEnd ==
    /\ status.state = "running"
    /\ Top.pc > Len(Top.ps)
    /\ Outcome(block_end(frames, tx))

\* the steps of the thread that runs the program
ImpStep ==
    \/ Killed
    \/ LoopTop
    \/ ExecProgram
    \/ ExecIgnoreErrorProgram
    \/ ExecIf
    \/ ExecLoop
    \/ ExecBreak
    \/ ExecContinue
    \/ ExecReturn
    \/ ExecTempSwap
    \/ ExecTempDebug
    \/ BlockEnd

NextImp ==
    \/ ExecuteImperative
    \/ Kill
    \/ ImpStep

SpecImp == InitImp /\ [][NextImp]_vars

\* the thread that runs the program keeps running
SpecImpFair == SpecImp /\ WF_vars(ImpStep)

(***************************************************************************)
(* Threads calling execute_imperative on a database over one               *)
(* SqliteStorage: the relation locks and the transaction of each call, and *)
(* the del_range closures spawned for its cleanups.                        *)
(***************************************************************************)
InitConc ==
    /\ RAIdle
    /\ SkipIdle
    /\ ImpIdle
    /\ ConcIdle
    /\ SqlIdle
    /\ DijIdle

is_write(t) == callers[t].write_lock_names # {}

\* a faulty transact: the shared side of the lock is taken for a writer too
transact_always_shared(l, write, who) == ReadLocked(l, who)

\* SqliteStorage::transact(write): the lock as held by the new transaction
transact(l, write, who) == IF write THEN WriteLocked(l, who) ELSE ReadLocked(l, who)

\* whether transact(write) gets its guard at once
CanTransact(l, write) == IF write THEN CanWrite(l) ELSE CanRead(l)

\* execute_imperative(cur_vld, ps): needs_write_locks collects the names
Call(t) ==
    /\ callers[t].pc = "idle"
    /\ \E names \in SUBSET RelationNames :
         callers' = [callers EXCEPT ![t] = [pc |-> "called", write_lock_names |-> names]]
    /\ UNCHANGED <<relation_locks, lock, closures, raVars, skipVars, impVars, sqlVars, dijVars>>

\* obtain_relation_locks and l.read() on each of the locks
ObtainRelationLocks(t) ==
    /\ callers[t].pc = "called"
    /\ \A n \in callers[t].write_lock_names : CanRead(relation_locks[n])
    /\ relation_locks' = [n \in RelationNames |->
                            IF n \in callers[t].write_lock_names
                            THEN ReadLocked(relation_locks[n], t) ELSE relation_locks[n]]
    /\ callers' = [callers EXCEPT ![t].pc = "locked"]
    /\ UNCHANGED <<lock, closures, raVars, skipVars, impVars, sqlVars, dijVars>>

\* transact_write() or transact(): the thread waits for the storage lock
Transact(t) ==
    /\ callers[t].pc = "locked"
    /\ CanTransact(lock, is_write(t))
    /\ lock' = transact(lock, is_write(t), t)
    /\ callers' = [callers EXCEPT ![t].pc = "tx"]
    /\ UNCHANGED <<relation_locks, closures, raVars, skipVars, impVars, sqlVars, dijVars>>

\* the statements have run and commit_tx has succeeded
CommitTx(t) ==
    /\ callers[t].pc = "tx"
    /\ callers' = [callers EXCEPT ![t].pc = "committed"]
    /\ UNCHANGED <<relation_locks, lock, closures, raVars, skipVars, impVars, sqlVars, dijVars>>

\* the block of the transaction ends: SqliteTx is dropped and its guard with it
DropTx(t) ==
    /\ callers[t].pc = "committed"
    /\ lock' = Released(lock, t)
    /\ callers' = [callers EXCEPT ![t].pc = "ended"]
    /\ UNCHANGED <<relation_locks, closures, raVars, skipVars, impVars, sqlVars, dijVars>>

\* a statement or the commit fails: `?` returns, dropping the transaction
\* and the guards of the relation locks
FailTx(t) ==
    /\ callers[t].pc = "tx"
    /\ lock' = Released(lock, t)
    /\ relation_locks' = [n \in RelationNames |-> Released(relation_locks[n], t)]
    /\ callers' = [callers EXCEPT ![t].pc = "returned"]
    /\ UNCHANGED <<closures, raVars, skipVars, impVars, sqlVars, dijVars>>

\* self.db.del_range for the cleanups of a writing program: the closure is
\* spawned and del_range returns
DelRange(t) ==
    /\ callers[t].pc = "ended"
    /\ is_write(t)
    /\ closures[t] = "none"
    /\ closures' = [closures EXCEPT ![t] = "spawned"]
    /\ UNCHANGED <<callers, relation_locks, lock, raVars, skipVars, impVars, sqlVars, dijVars>>

\* execute_imperative returns Ok(ret): the guards of the relation locks drop
Return(t) ==
    /\ callers[t].pc = "ended"
    /\ relation_locks' = [n \in RelationNames |-> Released(relation_locks[n], t)]
    /\ callers' = [callers EXCEPT ![t].pc = "returned"]
    /\ UNCHANGED <<lock, closures, raVars, skipVars, impVars, sqlVars, dijVars>>

\* the closure of del_range gets lock.write() and starts deleting
ClosureStart(t) ==
    /\ closures[t] = "spawned"
    /\ CanWrite(lock)
    /\ lock' = WriteLocked(lock, ClosureOf[t])
    /\ closures' = [closures EXCEPT ![t] = "deleting"]
    /\ UNCHANGED <<callers, relation_locks, raVars, skipVars, impVars, sqlVars, dijVars>>

\* the closure of del_range is through: _locked is dropped
ClosureEnd(t) ==
    /\ closures[t] = "deleting"
    /\ lock' = Released(lock, ClosureOf[t])
    /\ closures' = [closures EXCEPT ![t] = "finished"]
    /\ UNCHANGED <<callers, relation_locks, raVars, skipVars, impVars, sqlVars, dijVars>>

NextConc ==
    \E t \in Threads :
        \/ Call(t)
        \/ ObtainRelationLocks(t)
        \/ Transact(t)
        \/ CommitTx(t)
        \/ DropTx(t)
        \/ FailTx(t)
        \/ DelRange(t)
        \/ Return(t)
        \/ ClosureStart(t)
        \/ ClosureEnd(t)

SpecConc == InitConc /\ [][NextConc]_vars

(***************************************************************************)
(* Transactions on one SqliteStorage: the pool of connections, the         *)
(* prepared statements each SqliteTx caches, and the order in which the    *)
(* parts of a SqliteTx go when it is dropped.  A connection is a positive  *)
(* number; a cached statement is the number of the connection it was       *)
(* prepared on.                                                            *)
(***************************************************************************)
InitSql ==
    /\ RAIdle
    /\ SkipIdle
    /\ ImpIdle
    /\ ConcIdle
    /\ SqlIdle
    /\ DijIdle

\* transact(write), first half: a connection is popped from the pool, or
\* opened when the pool is empty
PoolPop(t) ==
    /\ sqliteTx[t].pc = "none"
    /\ \E write \in BOOLEAN :
         IF pool = <<>>
         THEN /\ nConns < MaxConns
              /\ nConns' = nConns + 1
              /\ pool' = pool
              /\ sqliteTx' = [sqliteTx EXCEPT ![t] =
                                [NoTx EXCEPT !.pc = "connected", !.write = write,
                                             !.conn = nConns + 1]]
         ELSE /\ pool' = SubSeq(pool, 1, Len(pool) - 1)
              /\ nConns' = nConns
              /\ sqliteTx' = [sqliteTx EXCEPT ![t] =
                                [NoTx EXCEPT !.pc = "connected", !.write = write,
                                             !.conn = pool[Len(pool)]]]
    /\ UNCHANGED <<lock, callers, relation_locks, closures, raVars, skipVars, impVars, dijVars>>

\* transact(write), second half: the thread waits for the storage lock and
\* the SqliteTx is made, with no statement cached
TransactLock(t) ==
    /\ sqliteTx[t].pc = "connected"
    /\ CanTransact(lock, sqliteTx[t].write)
    /\ lock' = transact(lock, sqliteTx[t].write, t)
    /\ sqliteTx' = [sqliteTx EXCEPT ![t].pc = "open"]
    /\ UNCHANGED <<pool, nConns, callers, relation_locks, closures, raVars, skipVars, impVars, dijVars>>

\* SqliteTx::ensure_stmt(idx), as get, put, del and exists call it: the
\* statement is prepared on the connection unless it is cached already
ensure_stmt(t, idx) ==
    /\ sqliteTx[t].pc = "open"
    /\ sqliteTx' = [sqliteTx EXCEPT ![t].stmts[idx] =
                      IF sqliteTx[t].stmts[idx] = 0 THEN sqliteTx[t].conn
                      ELSE sqliteTx[t].stmts[idx]]
    /\ UNCHANGED <<pool, nConns, lock, callers, relation_locks, closures,
                   raVars, skipVars, impVars, dijVars>>

\* SqliteTx::commit: a writing transaction commits once
commit(t) ==
    /\ sqliteTx[t].pc = "open"
    /\ sqliteTx' = [sqliteTx EXCEPT ![t].committed =
                      sqliteTx[t].committed \/ sqliteTx[t].write]
    /\ UNCHANGED <<pool, nConns, lock, callers, relation_locks, closures,
                   raVars, skipVars, impVars, dijVars>>

\* Drop for SqliteTx: the body of drop() takes the connection out of the
\* SqliteTx and pushes it onto the pool
drop(t) ==
    /\ sqliteTx[t].pc = "open"
    /\ pool' = Append(pool, sqliteTx[t].conn)
    /\ sqliteTx' = [sqliteTx EXCEPT ![t].conn = 0, ![t].pc = "dropped"]
    /\ UNCHANGED <<nConns, lock, callers, relation_locks, closures, raVars, skipVars, impVars, dijVars>>

\* after drop() the fields go in the order of their declaration: first `lock`
DropLock(t) ==
    /\ sqliteTx[t].pc = "dropped"
    /\ lock' = Released(lock, t)
    /\ sqliteTx' = [sqliteTx EXCEPT ![t].pc = "unlocked"]
    /\ UNCHANGED <<pool, nConns, callers, relation_locks, closures, raVars, skipVars, impVars, dijVars>>

\* then `conn`, which is None by now, and then `stmts`: the statements are
\* finalized and the SqliteTx is gone
DropStmts(t) ==
    /\ sqliteTx[t].pc = "unlocked"
    /\ sqliteTx' = [sqliteTx EXCEPT ![t] = NoTx]
    /\ UNCHANGED <<pool, nConns, lock, callers, relation_locks, closures,
                   raVars, skipVars, impVars, dijVars>>

\* SqliteStorage::range_compact: every pooled connection is popped and dropped
range_compact ==
    /\ pool # <<>>
    /\ pool' = <<>>
    /\ UNCHANGED <<sqliteTx, nConns, lock, callers, relation_locks, closures,
                   raVars, skipVars, impVars, dijVars>>

NextSql ==
    \/ \E t \in SqlThreads :
          \/ PoolPop(t)
          \/ TransactLock(t)
          \/ \E idx \in 0..(N_CACHED_QUERIES - 1) : ensure_stmt(t, idx)
          \/ commit(t)
          \/ drop(t)
          \/ DropLock(t)
          \/ DropStmts(t)
    \/ range_compact

SpecSql == InitSql /\ [][NextSql]_vars

(***************************************************************************)
(* shortest_path_dijkstra.rs: dijkstra over a weighted graph given as one  *)
(* list of (node, weight) per node.  Nodes are 0..NumNodes-1; costs are    *)
(* whole numbers, which f64 holds exactly, and INFINITY is a number above  *)
(* every cost a path can have.                                             *)
(***************************************************************************)
NumNodes == 3
MaxWeight == 1
DijNodes == 0..(NumNodes - 1)

\* f64::INFINITY
INFINITY == NumNodes * MaxWeight + 1

\* usize::MAX
USIZE_MAX == 0 - 1

RECURSIVE AscendingSeq(_)
\* the numbers of S, smallest first: the order a BTreeSet iterates in
AscendingSeq(S) ==
    IF S = {} THEN <<>>
    ELSE LET m == CHOOSE x \in S : \A y \in S : x <= y
         IN <<m>> \o AscendingSeq(S \ {m})

\* the graphs run: every choice of a weight, or of no edge, for each ordered
\* pair of different nodes; edges[u] lists the edges of u by target
DijPairs == {p \in DijNodes \X DijNodes : p[1] # p[2]}

EdgesOf(W) ==
    [u \in DijNodes |->
        LET vs == AscendingSeq({v \in DijNodes : v # u /\ W[<<u, v>>] >= 0})
        IN [i \in 1..Len(vs) |-> <<vs[i], W[<<u, vs[i]>>]>>]]

DijGraphs == {EdgesOf(W) : W \in [DijPairs -> (0 - 1)..MaxWeight]}

\* the goals: (), an Option<usize>, a BTreeSet<usize>
NoGoal == [kind |-> "unit", nodes |-> {}]
OptionGoal(S) == [kind |-> "option", nodes |-> S]
SetGoal(S) == [kind |-> "set", nodes |-> S]

DijGoals ==
    {NoGoal} \cup {OptionGoal({g}) : g \in DijNodes} \cup {SetGoal(S) : S \in SUBSET DijNodes}

\* Goal::is_exhausted
is_exhausted(g) ==
    CASE g.kind = "unit" -> FALSE
      [] g.kind = "option" -> g.nodes = {}
      [] OTHER -> g.nodes = {}

\* Goal::visit
visit(g, node) ==
    CASE g.kind = "unit" -> g
      [] g.kind = "option" -> IF node \in g.nodes THEN [g EXCEPT !.nodes = {}] ELSE g
      [] OTHER -> [g EXCEPT !.nodes = @ \ {node}]

\* Goal::iter(total)
goal_iter(g, total) ==
    CASE g.kind = "unit" -> [i \in 1..total |-> i - 1]
      [] OTHER -> AscendingSeq(g.nodes)

HeapState(cost, node) == [cost |-> cost, node |-> node]

\* a faulty heap: Ord for HeapState without reverse(), the dearest entry first
heap_pop_dearest(heap) ==
    CHOOSE e \in heap : \A f \in heap :
        \/ e.cost > f.cost
        \/ e.cost = f.cost /\ e.node >= f.node

\* BinaryHeap::pop under Ord for HeapState: the greatest entry, which is the
\* one of least cost and, among those, of the greatest node
heap_pop(heap) ==
    CHOOSE e \in heap : \A f \in heap :
        \/ e.cost < f.cost
        \/ e.cost = f.cost /\ e.node >= f.node

\* the locals of dijkstra before the while loop
dijkstra_locals(start, goals) ==
    [distance |-> [n \in DijNodes |-> IF n = start THEN 0 ELSE INFINITY],
     heap |-> {HeapState(0, start)},
     back_pointers |-> [n \in DijNodes |-> USIZE_MAX],
     goals_remaining |-> goals,
     broke |-> FALSE]

RECURSIVE relax(_, _, _, _)
\* the for loop over edges[state.node], from its i-th edge on; nothing is
\* forbidden
relax(es, i, state, st) ==
    IF i > Len(es) THEN st
    ELSE LET nxt_node == es[i][1]
             nxt_cost == state.cost + es[i][2]
         IN IF nxt_cost < st.distance[nxt_node]
            THEN relax(es, i + 1, state,
                       [st EXCEPT !.heap = @ \cup {HeapState(nxt_cost, nxt_node)},
                                  !.distance[nxt_node] = nxt_cost,
                                  !.back_pointers[nxt_node] = state.node])
            ELSE relax(es, i + 1, state, st)

\* whether the entry the heap gives next is out of date
stale(st) == heap_pop(st.heap).cost > st.distance[heap_pop(st.heap).node]

\* one round of `while let Some(state) = heap.pop()`
while_round(edges, st) ==
    LET state == heap_pop(st.heap)
        popped == [st EXCEPT !.heap = @ \ {state}]
    IN IF state.cost > st.distance[state.node] THEN popped
       ELSE LET r == relax(edges[state.node], 1, state, popped)
                g == visit(r.goals_remaining, state.node)
            IN [r EXCEPT !.goals_remaining = g, !.broke = is_exhausted(g)]

RECURSIVE back_path(_, _, _)
\* the path pushed from `current` back to start, reversed
back_path(current, start, back_pointers) ==
    IF current = start THEN <<start>>
    ELSE Append(back_path(back_pointers[current], start, back_pointers), current)

\* the value dijkstra returns: for each goal its cost and path
collect(start, goals, st) ==
    LET targets == goal_iter(goals, NumNodes)
    IN [i \in 1..Len(targets) |->
          LET cost == st.distance[targets[i]]
          IN IF cost >= INFINITY
             THEN [target |-> targets[i], cost |-> cost, path |-> <<>>]
             ELSE [target |-> targets[i], cost |-> cost,
                   path |-> back_path(targets[i], start, st.back_pointers)]]

RECURSIVE while_loop(_, _)
\* the while loop run to its end
while_loop(edges, st) ==
    IF st.heap = {} \/ st.broke THEN st ELSE while_loop(edges, while_round(edges, st))

\* dijkstra(edges, start, goals, &(), &())
dijkstra(edges, start, goals) ==
    collect(start, goals, while_loop(edges, dijkstra_locals(start, goals)))

\* dijkstra is called and is about to enter its loop
InitDij ==
    /\ RAIdle
    /\ SkipIdle
    /\ ImpIdle
    /\ ConcIdle
    /\ SqlIdle
    /\ \E edges \in DijGraphs : \E start \in DijNodes : \E goals \in DijGoals :
          dij = [pc |-> "loop", edges |-> edges, start |-> start, goals |-> goals,
                 st |-> dijkstra_locals(start, goals), ret |-> <<>>]

\* a round of the loop that pops an entry out of date and continues
PopStale ==
    /\ dij.pc = "loop"
    /\ dij.st.heap # {}
    /\ ~dij.st.broke
    /\ stale(dij.st)
    /\ dij' = [dij EXCEPT !.st = while_round(dij.edges, dij.st)]
    /\ UNCHANGED <<raVars, skipVars, impVars, concVars, sqlVars>>

\* a round of the loop that relaxes the edges of the popped node and visits it
PopRelax ==
    /\ dij.pc = "loop"
    /\ dij.st.heap # {}
    /\ ~dij.st.broke
    /\ ~stale(dij.st)
    /\ dij' = [dij EXCEPT !.st = while_round(dij.edges, dij.st)]
    /\ UNCHANGED <<raVars, skipVars, impVars, concVars, sqlVars>>

\* the loop is over, by an empty heap or by break: the result is collected
DijkstraReturn ==
    /\ dij.pc = "loop"
    /\ dij.st.heap = {} \/ dij.st.broke
    /\ dij' = [dij EXCEPT !.pc = "done", !.ret = collect(dij.start, dij.goals, dij.st)]
    /\ UNCHANGED <<raVars, skipVars, impVars, concVars, sqlVars>>

NextDij ==
    \/ PopStale
    \/ PopRelax
    \/ DijkstraReturn

SpecDij == InitDij /\ [][NextDij]_vars

\* the thread that runs dijkstra keeps running
SpecDijFair == SpecDij /\ WF_vars(NextDij)

(***************************************************************************)
(* Properties.                                                             *)
(***************************************************************************)
RowSet(s) == Range(s.rows)

MatJoinTypes == {"mem_mat_join", "stored_mat_join", "generic_mat_join"}

\* the join of two streams by definition: every pair of a left and a right
\* tuple that agree on the join columns, the right tuple cut to the right's
\* bindings, minus the eliminated positions
JoinedSet(j, L, R) ==
    LET ji == join_indices(j.joiner, bindings_after_eliminate(j.left),
                           bindings_after_eliminate(j.right))
        n == Len(bindings_after_eliminate(j.right))
        eliminate_indices == get_eliminate_indices(JoinBindings(j), j.to_eliminate)
    IN {eliminate_from_tuple(l \o SubSeq(r, 1, n), eliminate_indices) :
            <<l, r>> \in {pr \in RowSet(L) \X RowSet(R) :
                            Project(pr[2], ji.r) = Project(pr[1], ji.l)}}

\* C1: an InnerJoin evaluated by the materialized strategy emits exactly the
\* set of tuples l ++ r, for l a tuple of the left stream and r a tuple of the
\* right stream whose join columns equal those of l, with the right columns in
\* the right's binding order and the join's eliminated columns removed.
C1_MaterializedJoinIsJoin ==
    (/\ stage = "iterated"
     /\ tree.kind = "Join"
     /\ join_type(tree) \in MatJoinTypes
     /\ Iter(tree.left, deltaRule).err = "none"
     /\ Iter(tree.right, deltaRule).err = "none")
    => /\ out.err = "none"
       /\ RowSet(out) = JoinedSet(tree, Iter(tree.left, deltaRule),
                                  Iter(tree.right, deltaRule))

\* the scenario of test_mat_join: ?[x] := a = 3, data[x, a] yields (1) and (2)
C1_Witness ==
    /\ stage = "iterated"
    /\ tree.kind = "Join"
    /\ join_type(tree) = "mem_mat_join"
    /\ tree.left.kind = "Unification"
    /\ tree.joiner = [left_keys |-> <<"c">>, right_keys |-> <<"q">>]
    /\ used = {"p"}
    /\ out = OkS(<<<<Num(1)>>, <<Num(2)>>>>)

\* the multiset of the tuples of a sequence
BagOf(rows) == [t \in Range(rows) |-> Cardinality({i \in 1..Len(rows) : rows[i] = t})]

PrefixJoinTypes == {"mem_prefix_join", "stored_prefix_join"}

\* the stream the materialized strategy computes for join `j`
MaterializedOut(j, delta_rule) ==
    materialized_join(j, Iter(j.left, delta_rule), Iter(j.right, delta_rule),
                      get_eliminate_indices(JoinBindings(j), j.to_eliminate))

\* C2: when the right side is a scan (TempStore, Stored, StoredWithValidity)
\* and the join keys are a prefix of its columns, the prefix strategy yields the
\* same multiset of tuples as the materialized strategy on the same inputs,
\* point lookups included.
C2_PrefixEqualsMaterialized ==
    (/\ stage = "iterated"
     /\ tree.kind = "Join"
     /\ join_type(tree) \in PrefixJoinTypes
     /\ Iter(tree.left, deltaRule).err = "none"
     /\ Iter(tree.right, deltaRule).err = "none")
    => /\ out.err = "none"
       /\ BagOf(out.rows) = BagOf(MaterializedOut(tree, deltaRule).rows)

\* the stream a scan yields by its own iteration once its filters are compiled
OwnIteration(scan, delta_rule) ==
    Iter(fill_binding_indices_and_compile(scan).ra, delta_rule)

\* the anti-join of stream L against stream R by definition: the tuples of L,
\* in order and with multiplicity, whose left-key projection is the right-key
\* projection of no tuple of R
AntiJoined(nj, L, R) ==
    LET ji == join_indices(nj.joiner, bindings_after_eliminate(nj.left),
                           bindings_after_eliminate(nj.right))
        eliminate_indices ==
            get_eliminate_indices(bindings_after_eliminate(nj.left), nj.to_eliminate)
        kept == SelectSeq(L.rows, LAMBDA l :
                    \A k \in 1..Len(R.rows) : Project(R.rows[k], ji.r) # Project(l, ji.l))
    IN [i \in 1..Len(kept) |-> eliminate_from_tuple(kept[i], eliminate_indices)]

\* C3: NegJoin(L, R) over a TempStore or Stored R yields exactly the tuples of
\* L's stream whose left-key projection equals the right-key projection of no
\* tuple that R's own iteration (its scan filters applied) yields, once per
\* occurrence in L, on the prefix path and on the materialized-set path.
C3_NegJoinIsAntiJoin ==
    (/\ stage = "iterated"
     /\ tree.kind = "NegJoin"
     /\ tree.right.kind \in {"TempStore", "Stored"}
     /\ Iter(tree.left, deltaRule).err = "none"
     /\ OwnIteration(tree.right, deltaRule).err = "none")
    => /\ out.err = "none"
       /\ out.rows = AntiJoined(tree, Iter(tree.left, deltaRule),
                                OwnIteration(tree.right, deltaRule))

\* the tree is InnerJoin(Unit, R) with empty join keys and nothing eliminated
\* by the join
IsUnitJoin(j) ==
    /\ j.kind = "Join"
    /\ is_unit(j.left)
    /\ j.joiner = [left_keys |-> <<>>, right_keys |-> <<>>]
    /\ j.to_eliminate = {}

\* C4: for R of every kind, iterating InnerJoin(Unit, R) with empty join keys
\* and no elimination completes without failure and yields exactly the tuples
\* that iterating R yields.
C4_UnitJoinIsIdentity ==
    (/\ stage = "iterated"
     /\ IsUnitJoin(tree)
     /\ Iter(tree.right, deltaRule).err = "none")
    => /\ out.err = "none"
       /\ RowSet(out) = RowSet(Iter(tree.right, deltaRule))

RECURSIVE EvalExpr(_, _, _)
\* the value of expression `e` on tuple `t` whose columns are named by `bs`
EvalExpr(e, bs, t) ==
    CASE e.op = "const" -> e.val
      [] e.op = "var" -> t[IndexOf(e.name, bs)]
      [] OTHER -> ApplyOp(e.op, EvalExpr(e.args[1], bs, t), EvalExpr(e.args[2], bs, t))

\* every predicate of `filters` holds on `t`
Satisfies(filters, bs, t) ==
    \A i \in 1..Len(filters) : EvalExpr(filters[i], bs, t) = BoolV(TRUE)

\* every predicate of `filters` has a boolean value on every tuple of `rows`
AllBoolean(filters, bs, rows) ==
    \A k \in 1..Len(rows) : \A i \in 1..Len(filters) :
        IsBool(EvalExpr(filters[i], bs, rows[k]))

\* the tuples of Filter node `f`'s parent stream N that satisfy the predicate
\* list, in N's order, less the columns the Filter eliminates
FilteredStream(f, N) ==
    LET bs == bindings_after_eliminate(f.parent)
        kept == SelectSeq(N.rows, LAMBDA t : Satisfies(f.filters, bs, t))
        eliminate_indices == get_eliminate_indices(bs, f.to_eliminate)
    IN [i \in 1..Len(kept) |-> eliminate_from_tuple(kept[i], eliminate_indices)]

\* C5: filter(p) on a node that already is Filter(q, N) gives one Filter node
\* over N whose predicate list is q's list followed by p, with no nested
\* Filter; after planning, its stream is the stream of the tuples of N that
\* satisfy q and p, in N's order.
C5_FilterFusion ==
    (lastOp.op = "filter" /\ prevTree.kind = "Filter")
    => /\ stage = "build" =>
            /\ tree.kind = "Filter"
            /\ tree.parent = prevTree.parent
            /\ tree.filters = Append(prevTree.filters, lastOp.arg)
       /\ (/\ stage = "iterated"
           /\ Iter(tree.parent, deltaRule).err = "none"
           /\ AllBoolean(tree.filters, bindings_after_eliminate(tree.parent),
                         Iter(tree.parent, deltaRule).rows))
          => /\ tree.kind = "Filter"
             /\ tree.parent.kind # "Filter"
             /\ out = OkS(FilteredStream(tree, Iter(tree.parent, deltaRule)))

\* a fused Filter of two predicates that keeps one tuple of N and drops another
C5_Witness ==
    /\ stage = "iterated"
    /\ lastOp.op = "filter"
    /\ prevTree.kind = "Filter"
    /\ tree.kind = "Filter"
    /\ Len(tree.filters) = 2
    /\ out.err = "none"
    /\ out.rows # <<>>
    /\ Len(out.rows) < Len(Iter(tree.parent, deltaRule).rows)

RECURSIVE FiltersIn(_)
\* every predicate held anywhere in the tree `r`: in a scan's filter list or in
\* a Filter node's list
FiltersIn(r) ==
    CASE r.kind \in ScanKinds -> r.filters
      [] r.kind = "Filter" -> FiltersIn(r.parent) \o r.filters
      [] r.kind = "Unification" -> FiltersIn(r.parent)
      [] r.kind = "Reorder" -> FiltersIn(r.relation)
      [] r.kind \in {"Join", "NegJoin"} -> FiltersIn(r.left) \o FiltersIn(r.right)
      [] OTHER -> <<>>

\* the conjuncts of `f` whose free variables lie within the left side of join j
LeftConjuncts(f, j) ==
    SelectSeq(to_conjunction(f),
              LAMBDA c : ExprBindings(c) \subseteq Range(bindings_before_eliminate(j.left)))

\* the conjuncts that do not go left and whose free variables lie within the
\* right side
RightConjuncts(f, j) ==
    SelectSeq(to_conjunction(f),
              LAMBDA c : /\ ~(ExprBindings(c) \subseteq Range(bindings_before_eliminate(j.left)))
                         /\ ExprBindings(c) \subseteq Range(bindings_before_eliminate(j.right)))

\* the conjuncts that fit neither side
CrossConjuncts(f, j) ==
    SelectSeq(to_conjunction(f),
              LAMBDA c : /\ ~(ExprBindings(c) \subseteq Range(bindings_before_eliminate(j.left)))
                         /\ ~(ExprBindings(c) \subseteq Range(bindings_before_eliminate(j.right))))

\* C6: filter(f) on an InnerJoin splits f into its conjuncts; a conjunct whose
\* free variables are within the left's pre-elimination bindings goes into the
\* left child, otherwise one within the right's goes into the right child,
\* otherwise it goes into a residual Filter above the join, which exists
\* exactly when some conjunct is cross-side.
C6_FilterPushdownSplit ==
    (stage = "build" /\ lastOp.op = "filter" /\ prevTree.kind = "Join")
    => LET f == lastOp.arg
           residual == tree.kind = "Filter"
           joined == IF residual THEN tree.parent ELSE tree
       IN /\ residual <=> CrossConjuncts(f, prevTree) # <<>>
          /\ residual => tree.filters = CrossConjuncts(f, prevTree)
          /\ joined.kind = "Join"
          /\ joined.joiner = prevTree.joiner
          /\ BagOf(FiltersIn(joined.left))
                = BagOf(FiltersIn(prevTree.left) \o LeftConjuncts(f, prevTree))
          /\ BagOf(FiltersIn(joined.right))
                = BagOf(FiltersIn(prevTree.right) \o RightConjuncts(f, prevTree))
          /\ bindings_before_eliminate(joined.left) = bindings_before_eliminate(prevTree.left)
          /\ bindings_before_eliminate(joined.right) = bindings_before_eliminate(prevTree.right)

\* l[x] joined with data[p, q] and filtered by x >= 2 && q <= 2: one conjunct
\* in each scan's filters and no residual Filter
C6_Witness ==
    /\ stage = "build"
    /\ lastOp.op = "filter"
    /\ prevTree.kind = "Join"
    /\ tree.kind = "Join"
    /\ tree.left.kind = "TempStore"
    /\ tree.right.kind = "TempStore"
    /\ tree.left.filters = <<App("ge", Var("x"), Const(Num(2)))>>
    /\ tree.right.filters = <<App("le", Var("q"), Const(Num(2)))>>

RECURSIVE Eliminated(_, _, _)
\* eliminate_temp_vars(u) run n times on `t`
Eliminated(t, u, n) ==
    IF n = 0 THEN t ELSE Eliminated(eliminate_temp_vars(t, u), u, n - 1)

\* the stream of the tree `t` planned as the current tree was planned
Planned(t) ==
    LET c == fill_binding_indices_and_compile(Eliminated(t, used, elimRuns))
    IN IF c.ok THEN Iter(c.ra, deltaRule) ELSE ErrS("compile")

\* the bindings the tree `t` has once planned as the current tree was planned
PlannedBindings(t) == bindings_after_eliminate(Eliminated(t, used, elimRuns))

\* the tuples of stream `s`, each cut to its first `n` columns
CutSet(s, n) == {SubSeq(t, 1, n) : t \in RowSet(s)}

RECURSIVE Nodes(_)
\* the nodes of the tree `r`, root first
Nodes(r) ==
    CASE r.kind \in {"Filter", "Unification"} -> <<r>> \o Nodes(r.parent)
      [] r.kind = "Reorder" -> <<r>> \o Nodes(r.relation)
      [] r.kind \in {"Join", "NegJoin"} -> <<r>> \o Nodes(r.left) \o Nodes(r.right)
      [] OTHER -> <<r>>

\* every node's elimination set, root first
EliminateSets(r) == [i \in 1..Len(Nodes(r)) |-> eliminate_set(Nodes(r)[i])]

\* every node's bindings_after_eliminate(), root first
BindingsAfter(r) == [i \in 1..Len(Nodes(r)) |-> bindings_after_eliminate(Nodes(r)[i])]

\* the stream of an eliminated tree once compiled
CompiledStream(t, delta_rule) ==
    LET c == fill_binding_indices_and_compile(t)
    IN IF c.ok THEN Iter(c.ra, delta_rule) ELSE ErrS("compile")

\* C8: a second eliminate_temp_vars(used) with the same used set leaves every
\* node's elimination set and every node's bindings_after_eliminate()
\* unchanged, and the tree yields the same tuple stream as after the first run.
C8_EliminationIdempotent ==
    elimRuns = 2
    => /\ EliminateSets(tree) = EliminateSets(beforeElim)
       /\ BindingsAfter(tree) = BindingsAfter(beforeElim)
       /\ stage = "iterated" => out = CompiledStream(beforeElim, deltaRule)

\* a tree eliminated twice in which a join and its Fixed child each eliminate
\* a column, iterated to a non-empty stream
C8_Witness ==
    /\ elimRuns = 2
    /\ stage = "iterated"
    /\ tree.kind = "Join"
    /\ tree.to_eliminate # {}
    /\ tree.right.kind = "Fixed"
    /\ tree.right.to_eliminate # {}
    /\ out.err = "none"
    /\ out.rows # <<>>

\* the join indices of join `j` over its planned children
IndicesOf(j) ==
    join_indices(j.joiner, bindings_after_eliminate(j.left),
                 bindings_after_eliminate(j.right))

\* join `j` is a prefix join over a scan that takes the bounded branch
IsBoundedPrefixJoin(j) ==
    /\ j.kind = "Join"
    /\ j.right.kind \in ScanKinds
    /\ join_type(j) \in PrefixJoinTypes
    /\ j.right.kind = "Stored" => Len(IndicesOf(j).r) < Relations[j.right.storage].keys
    /\ UseBounds(j.right, IndicesOf(j))

\* the right tuples the prefix join of `j` scans for the left tuple `tuple`
FoundFor(j, tuple, bounded, delta_rule) ==
    LET prefix == Project(tuple, left_to_prefix_indices(IndicesOf(j)))
    IN CASE j.right.kind = "TempStore" ->
                TempFound(j.right, IndicesOf(j), prefix, bounded, delta_rule)
         [] j.right.kind = "Stored" -> StoredFound(j.right, IndicesOf(j), prefix, bounded)
         [] OTHER -> ValidityFound(j.right, IndicesOf(j), prefix, bounded)

RECURSIVE SpreadStream(_, _, _)
\* what a multi-mode Unification `u` is to yield for the input tuples rows[i..]:
\* each tuple extended by every element of the list its expression evaluates
\* to, in list order, with the eliminated columns removed; the stream fails
\* with BadSpreadUnification at the first tuple whose value is no list
SpreadStream(u, rows, i) ==
    IF i > Len(rows) THEN OkS(<<>>)
    ELSE LET bs == bindings_after_eliminate(u.parent)
             val == EvalExpr(u.expr, bs, rows[i])
             eliminate_indices == get_eliminate_indices(Append(bs, u.binding), u.to_eliminate)
             rest == SpreadStream(u, rows, i + 1)
         IN IF ~IsList(val) THEN ErrS("BadSpreadUnification")
            ELSE [rows |-> [k \in 1..Len(GetSlice(val)) |->
                                eliminate_from_tuple(Append(rows[i], GetSlice(val)[k]),
                                                     eliminate_indices)]
                            \o rest.rows,
                  err |-> rest.err]

\* C10: a multi-mode Unification emits, for each input tuple whose expression
\* evaluates to a list of n elements, exactly n tuples: the input tuple
\* extended by each element in list order, then elimination applied; an empty
\* list yields no tuple, and a non-list yields a BadSpreadUnification error.
C10_MultiUnificationSpreads ==
    (/\ stage = "iterated" /\ tree.kind = "Unification" /\ tree.is_multi
     /\ Iter(tree.parent, deltaRule).err = "none")
    => out = SpreadStream(tree, Iter(tree.parent, deltaRule).rows, 1)

\* rl = {(1, [10, 20]), (2, [])} spread on its list column yields (1,10), (1,20)
C10_Witness ==
    /\ stage = "iterated"
    /\ tree.kind = "Unification"
    /\ tree.is_multi
    /\ tree.parent.kind = "TempStore"
    /\ Iter(tree.parent, deltaRule).rows
            = << <<Num(1), ListV(<<10, 20>>)>>, <<Num(2), ListV(<<>>)>> >>
    /\ out = OkS(<< <<Num(1), Num(10)>>, <<Num(1), Num(20)>> >>)

\* C11: RelAlgebra::relation with a validity timestamp returns a
\* StoredWithValidity node exactly when the relation's last key column has the
\* non-nullable type Validity, and otherwise fails with
\* InvalidTimeTravelScanning without building a node; with no validity
\* timestamp it always returns a Stored node.
C11_RelationValidityTyping ==
    (lastOp.op = "relation" /\ nOps = 0 /\ stage \in {"build", "failed"})
    => LET storage == lastOp.arg.storage
           validity == lastOp.arg.validity
           typing == Relations[storage].last_key_typing
       IN IF validity = <<>>
          THEN /\ stage = "build"
               /\ tree.kind = "Stored"
               /\ tree.storage = storage
          ELSE IF typing.coltype = "Validity" /\ ~typing.nullable
          THEN /\ stage = "build"
               /\ tree.kind = "StoredWithValidity"
               /\ tree.storage = storage
               /\ tree.valid_at = validity[1]
          ELSE /\ stage = "failed"
               /\ tree = NoNode
               /\ out = ErrS("InvalidTimeTravelScanning")

\* a time-travel scan asked of a relation whose last key column is a nullable
\* Validity: the call has failed
C11_Witness ==
    /\ lastOp.op = "relation"
    /\ lastOp.arg.storage = "sn"
    /\ lastOp.arg.validity = <<4>>
    /\ stage = "failed"
    /\ tree = NoNode

\* the records a skip-scan of [lower, upper) owes at valid_at, in key order
SkipExpected(rel, lower, upper, valid_at) ==
    SortSet({row \in Visible(rel, valid_at) :
                TupLeq(lower, KeyOf(rel, row)) /\ TupLess(KeyOf(rel, row), upper)})

\* C12: a validity skip-scan at valid_at yields, for each non-validity key
\* prefix in the scanned range, at most one record: the one with the greatest
\* validity <= valid_at when that record is not a tombstone, and nothing for
\* that prefix otherwise; the records come in key order.
C12_SkipScanYieldsVisible ==
    skipOut.open
    => LET expected == SkipExpected(skipIter.stmt, skipOut.lower, skipIter.upper_bound,
                                    skipIter.valid_at)
       IN /\ Len(skipOut.rows) <= Len(expected)
          /\ skipOut.rows = SubSeq(expected, 1, Len(skipOut.rows))
          /\ skipOut.done => skipOut.rows = expected

\* the table (1,1,v1), (1,3,v3), (1,5,tombstone) scanned whole at valid_at = 4
\* has yielded (1,3,v3) and is exhausted
C12_Witness ==
    /\ skipOut.open /\ skipOut.done
    /\ skipIter.valid_at = 4
    /\ skipOut.lower = <<>>
    /\ skipIter.stmt.rows = {<<Num(1), Vld(1, TRUE), Num(11)>>, <<Num(1), Vld(3, TRUE), Num(13)>>,
                             <<Num(1), Vld(5, FALSE), Null>>}
    /\ skipOut.rows = <<<<Num(1), Vld(3, TRUE), Num(13)>>>>

\* the join against an inline relation by definition: for each left tuple in
\* order, each row of the relation that agrees with it on the join columns, in
\* row order, appended to it and cut by the eliminate indices
FixedJoined(j, L) ==
    LET ji == join_indices(j.joiner, bindings_after_eliminate(j.left),
                           bindings_after_eliminate(j.right))
        eliminate_indices == get_eliminate_indices(JoinBindings(j), j.to_eliminate)
    IN FlatMapS(L, LAMBDA l :
            LET hits == SelectSeq(j.right.data,
                                  LAMBDA d : Project(d, ji.r) = Project(l, ji.l))
            IN OkS([i \in 1..Len(hits) |->
                        eliminate_from_tuple(l \o hits[i], eliminate_indices)]))

\* C13: an InnerJoin whose right side is an inline fixed relation emits, for
\* every left tuple and every right row matching it on the join columns, the
\* left tuple followed by that row with the join's eliminate indices removed,
\* whether the relation holds no row, one row or many rows.
C13_FixedJoinEliminates ==
    (/\ stage = "iterated"
     /\ tree.kind = "Join"
     /\ tree.right.kind = "Fixed"
     /\ JoinIndicesOk(join_indices(tree.joiner, bindings_after_eliminate(tree.left),
                                   bindings_after_eliminate(tree.right)))
     /\ Iter(tree.left, deltaRule).err = "none")
    => out = FixedJoined(tree, Iter(tree.left, deltaRule))

\* the tuples of its store a TempStore scan is to read: those of the current
\* epoch when a delta rule is given and names the store, all of them otherwise
Selected(r, delta_rule) ==
    IF delta_rule # "none" /\ delta_rule = r.storage_key
    THEN Stores[r.storage_key].delta
    ELSE Stores[r.storage_key].all

\* the selected tuples that pass the scan's filters, in store order
SelectedStream(r, delta_rule) ==
    filter_iter(r.filters_bytecodes, OkS(SortSet(Selected(r, delta_rule))))

\* C14: a TempStore scans only the tuples of the current epoch exactly when
\* the delta rule is given and equals its storage_key, and all tuples
\* otherwise; iter and prefix_join, with and without bounds, read the same
\* selection.
C14_DeltaSelection ==
    stage = "iterated"
    => /\ tree.kind = "TempStore" => out = SelectedStream(tree, deltaRule)
       /\ (/\ tree.kind = "Join"
           /\ tree.right.kind = "TempStore"
           /\ join_type(tree) = "mem_prefix_join"
           /\ Iter(tree.left, deltaRule).err = "none"
           /\ SelectedStream(tree.right, deltaRule).err = "none")
          => /\ out.err = "none"
             /\ RowSet(out) = JoinedSet(tree, Iter(tree.left, deltaRule),
                                        SelectedStream(tree.right, deltaRule))

\* a bounded prefix join under the delta rule of its right store: the epoch
\* holds fewer tuples within the bounds than the store, and a tuple is emitted
C14_Witness ==
    /\ stage = "iterated"
    /\ IsBoundedPrefixJoin(tree)
    /\ tree.right.kind = "TempStore"
    /\ deltaRule = tree.right.storage_key
    /\ tree.left.kind = "TempStore"
    /\ tree.left.storage_key # deltaRule
    /\ out.rows # <<>>
    /\ Cardinality(RowSet(out))
          < Cardinality(JoinedSet(tree, Iter(tree.left, deltaRule),
                                  SelectedStream(tree.right, "none")))

\* the rows a condition is decided on
ConditionRows(p, t) ==
    IF p.side = "Left" THEN get_relation(p.name, t) ELSE execute_single_program(p.name, t)

\* the value of a condition by definition: "false" without rows or with an
\* empty first row, else the last column of the first row as a boolean,
\* "error" when that column is no boolean after coercion
ConditionValue(rows) ==
    IF rows = <<>> THEN "false"
    ELSE IF rows[1] = <<>> THEN "false"
    ELSE LET last == op_to_bool(rows[1][Len(rows[1])])
         IN IF ~IsBool(last) THEN "error" ELSE IF last = BoolV(TRUE) THEN "true" ELSE "false"

\* the thread is at an If statement and takes its step
IfStep == AtStmt("If") /\ poison' = poison

\* C15: an imperative condition is false when its result has no rows or its
\* first row is empty; otherwise it is the last column of the first row
\* coerced to a boolean, and a value that cannot be coerced is a predicate
\* typing error.  An If runs its then-branch when the condition is true, a
\* negated If exactly when it is false.
C15_ConditionOfIf ==
    [][(IfStep /\ ConditionRows(Top.ps[Top.pc].condition, tx).ok)
       => LET stmt == Top.ps[Top.pc]
              value == ConditionValue(ConditionRows(stmt.condition, tx).res.rows)
              taken == IF (value = "true") # stmt.negated
                       THEN stmt.then_branch ELSE stmt.else_branch
          IN IF value = "error"
             THEN /\ status'.state = "error"
                  /\ status'.err = "PredicateTypeError"
                  /\ db' = db
             ELSE /\ status'.state = "running"
                  /\ Len(frames') = Len(frames) + 1
                  /\ frames'[Len(frames')].kind = "if"
                  /\ frames'[Len(frames')].ps = taken
                  /\ frames'[Len(frames')].pc = 1]_vars

\* a negated If whose condition has a true first and a false last column in
\* its first row has entered its then-branch
C15_Witness ==
    /\ status.state = "running"
    /\ Len(frames) = 2
    /\ frames[1].ps[frames[1].pc] =
          StmtIf(CondProg("no"), <<StmtProgram("one")>>, <<StmtProgram("two")>>, TRUE)
    /\ frames[2].kind = "if"
    /\ frames[2].ps = <<StmtProgram("one")>>

\* the thread is at a Break or Continue statement and takes its step
CtrlStep == (AtStmt("Break") \/ AtStmt("Continue")) /\ poison' = poison

\* the frames of the enclosing Loops a Break or Continue to `target` may stop at
MatchingLoops(target) ==
    {i \in 1..Len(frames) :
        frames[i].kind = "loop" /\ (target = "none" \/ frames[i].label = target)}

\* C16: a Break or Continue passes through the enclosing Ifs and Loops to the
\* first enclosing Loop whose label equals its target, the innermost Loop when
\* it has no target; a Break ends that Loop and the statement after it is
\* next, a Continue starts its next iteration.  With no such Loop the program
\* fails with the dangling-control-flow error and nothing is committed.
C16_BreakContinuePropagation ==
    [][CtrlStep
       => LET stmt == Top.ps[Top.pc]
              M == MatchingLoops(stmt.target)
          IN IF M = {}
             THEN /\ status'.state = "error"
                  /\ status'.err = "DanglingControlFlow"
                  /\ db' = db
             ELSE LET i == CHOOSE k \in M : \A o \in M : o <= k
                  IN /\ status'.state = "running"
                     /\ IF stmt.kind = "Break"
                        THEN /\ Len(frames') = i - 1
                             /\ frames'[i - 1] = [frames[i - 1] EXCEPT !.pc = @ + 1]
                             /\ \A k \in 1..(i - 2) : frames'[k] = frames[k]
                        ELSE /\ Len(frames') = i
                             /\ frames'[i] = [frames[i] EXCEPT !.pc = 0]
                             /\ \A k \in 1..(i - 1) : frames'[k] = frames[k]]_vars

\* Break a, inside an If inside Loop b inside Loop a, has ended Loop a in its
\* first iteration: the statement after Loop a is next
C16_Witness ==
    /\ status.state = "running"
    /\ Len(frames) = 1
    /\ frames[1].pc = 2
    /\ tx.cnt = 1
    /\ frames[1].ps[1].kind = "Loop"
    /\ frames[1].ps[1].label = "a"
    /\ frames[1].ps[1].body[2] =
          StmtLoop("b", <<StmtIf(CondProg("small"), <<StmtBreak("a")>>,
                                 <<StmtBreak("none")>>, FALSE)>>)

\* the thread is at an IgnoreErrorProgram statement and takes its step
IgnoreErrorStep == AtStmt("IgnoreErrorProgram") /\ poison' = poison

\* C17: when the program of an IgnoreErrorProgram statement fails, the
\* statement succeeds with one column "status" and the single row "FAILED"
\* and the imperative program goes on; when it succeeds, the statement's
\* result is the program's result.
C17_IgnoreErrorProgram ==
    [][IgnoreErrorStep
       => LET r == execute_single_program(Top.ps[Top.pc].prog, tx)
              n == Len(frames)
          IN /\ status'.state = "running"
             /\ Len(frames') = n
             /\ frames'[n].pc = frames[n].pc + 1
             /\ frames'[n].ret.headers = (IF r.ok THEN r.res.headers ELSE <<"status">>)
             /\ frames'[n].ret.rows = (IF r.ok THEN r.res.rows ELSE <<<<FAILED>>>>)]_vars

\* the failing program of an IgnoreErrorProgram statement has left the status
\* row behind and the statement after it is next
C17_Witness ==
    /\ status.state = "running"
    /\ Len(frames) = 1
    /\ frames[1].ps = <<StmtIgnoreErrorProgram("bad"), StmtProgram("cycle")>>
    /\ frames[1].pc = 2
    /\ frames[1].ret = NamedRows(<<"status">>, <<<<FAILED>>>>)

\* the thread of a poisoned program takes a step
PoisonedStep == status.state = "running" /\ poison /\ <<frames, status>>' # <<frames, status>>

\* a poisoned program starts nothing: where a statement or a loop iteration
\* is next, the step fails the program and commits nothing; elsewhere the step
\* only leaves a finished block, running no program
NothingStartsWhenPoisoned ==
    PoisonedStep
    => IF Top.pc <= Len(Top.ps)
       THEN /\ status'.state = "error"
            /\ status'.err = "killed"
            /\ db' = db
       ELSE /\ tx' = tx
            /\ \/ status'.state = "done"
               \/ Len(frames') = Len(frames) - 1
               \/ frames' = [frames EXCEPT ![Len(frames)] = [@ EXCEPT !.pc = 0]]

\* C18 as stated: the poison flag is checked before every statement of every
\* block and at the top of every loop iteration; once it is set no further
\* statement and no further loop iteration starts, and the imperative program
\* ends with an error.
C18_PoisonedEndsWithError ==
    /\ [][NothingStartsWhenPoisoned]_vars
    /\ poison ~> (status.state = "error")

\* C18: the poison flag is checked before every statement of every block and
\* at the top of every loop iteration; once it is set no further statement and
\* no further loop iteration starts, and the imperative program ends: with an
\* error when a statement or a loop iteration was still to start, normally
\* when the flag was set after its last statement had started.  A Loop without
\* break or return therefore terminates after it is poisoned.
C18_PoisonStopsProgram ==
    /\ [][NothingStartsWhenPoisoned]_vars
    /\ poison ~> (status.state \in {"error", "done"})

\* the endless program loop { cycle } has been killed after a full iteration
\* and has ended with the error, its write uncommitted
C18_Witness ==
    /\ status.ps = <<StmtLoop("none", <<StmtProgram("cycle")>>)>>
    /\ poison
    /\ status.state = "error"
    /\ status.err = "killed"
    /\ tx.cnt = 1
    /\ db.cnt = 0

\* the threads whose call holds the lock of relation `n`
HoldersOf(n) == relation_locks[n].readers \cup ({relation_locks[n].writer} \ {"none"})

\* the calls that have a transaction open
OpenTx == {t \in Threads : callers[t].pc \in {"tx", "committed"}}

\* C19: an imperative program that writes relations acquires an exclusive
\* lock on each relation name it needs write locks for before it starts
\* executing statements, so two such programs naming the same relation never
\* hold that relation's lock at the same time; the locks are held until the
\* transaction has ended.
C19_RelationLocksExclusive ==
    /\ \A t \in OpenTx : \A n \in callers[t].write_lock_names : t \in HoldersOf(n)
    /\ \A n \in RelationNames : Cardinality(HoldersOf(n)) <= 1

\* the open transactions made by transact(true) and by transact(false)
WriteTx == {t \in OpenTx : is_write(t)}
ReadTx == {t \in OpenTx : ~is_write(t)}
\* the del_range closures that are deleting
Deleting == {t \in Threads : closures[t] = "deleting"}

\* C20: for one SqliteStorage, at any moment either at most one write
\* transaction is open and no read transaction is, or any number of read
\* transactions are open and no write transaction is; a background del_range
\* deletion runs only while no transaction of that storage is open.
C20_StorageLockDiscipline ==
    /\ \/ Cardinality(WriteTx) <= 1 /\ ReadTx = {}
       \/ WriteTx = {}
    /\ Cardinality(Deleting) <= 1
    /\ Deleting # {} => OpenTx = {}

\* two read transactions are open while a spawned del_range closure waits
\* for the lock, and a call waits in transact_write
C20_Witness ==
    /\ Cardinality(ReadTx) >= 2
    /\ \E t \in Threads : closures[t] = "spawned"

\* the thread is at a TempSwap statement and takes its step
TempSwapStep == AtStmt("TempSwap") /\ poison' = poison

\* C21: a TempSwap of left and right that succeeds leaves the temp relation
\* that was named left under the name right and the one that was named right
\* under the name left, leaves no relation named "_*temp*" and changes no
\* other temp relation; when one of its renames fails, the imperative program
\* fails and its transaction is not committed.
C21_TempSwapAtomic ==
    [][TempSwapStep
       => LET stmt == Top.ps[Top.pc]
              old == tx.temps
              new == tx'.temps
          IN IF status'.state = "running"
             THEN /\ {stmt.left, stmt.right} \subseteq DOMAIN old
                  /\ stmt.left # stmt.right
                  /\ DOMAIN new = DOMAIN old
                  /\ TempName \notin DOMAIN new
                  /\ new[stmt.right] = old[stmt.left]
                  /\ new[stmt.left] = old[stmt.right]
                  /\ \A n \in DOMAIN old \ {stmt.left, stmt.right} : new[n] = old[n]
             ELSE /\ status'.state = "error"
                  /\ frames' = <<>>
                  /\ db' = db
                  /\ ~({stmt.left, stmt.right} \subseteq DOMAIN old /\ stmt.left # stmt.right)]_vars

\* TempSwap c a has run: the rows that were under c are under a and those that
\* were under a are under c, b is as it was
C21_Witness ==
    /\ status.state = "running"
    /\ status.ps = <<StmtTempSwap("c", "a"), StmtTempSwap("b", "c")>>
    /\ tx.temps["a"] = <<<<Num(7)>>>>
    /\ tx.temps["c"] = <<<<BoolV(TRUE)>>>>
    /\ tx.temps["b"] = <<>>
    /\ DOMAIN tx.temps = {"a", "b", "c"}

\* join `j` with the single tuple `t` as its left stream
LeftOnly(j, t) ==
    [j EXCEPT !.left = InlineFixedRA(bindings_after_eliminate(j.left), <<t>>)]

\* the same with nothing eliminated: every tuple is t ++ r for a right row r
LeftAlone(j, t) == [LeftOnly(j, t) EXCEPT !.to_eliminate = {}]

\* the right columns of a join's tuples, moved to the order in which the
\* strategy of the join keeps them sorted: the join columns first for the
\* materialized strategy, the scan's own column order for the prefix strategy
OrderKey(j, r) ==
    LET ji == join_indices(j.joiner, bindings_after_eliminate(j.left),
                           bindings_after_eliminate(j.right))
        rest == SelectSeq([i \in 1..Len(r) |-> i], LAMBDA i : i \notin Range(ji.r))
    IN IF join_type(j) \in MatJoinTypes
       THEN Project(r, ji.r) \o Project(r, rest)
       ELSE r

\* the rows are in the strictly ascending order of their right parts
AscendingRight(j, rows, left_len) ==
    \A k \in 1..(Len(rows) - 1) :
        TupLess(OrderKey(j, SubSeq(rows[k], left_len + 1, Len(rows[k]))),
                OrderKey(j, SubSeq(rows[k + 1], left_len + 1, Len(rows[k + 1]))))

RECURSIVE Flatten(_, _)
\* the sequences parts[i..] one after the other
Flatten(parts, i) == IF i > Len(parts) THEN <<>> ELSE parts[i] \o Flatten(parts, i + 1)

\* C22: in an InnerJoin evaluated by the prefix or the materialized strategy
\* the output is, left tuple by left tuple in the order of the left stream,
\* what the join yields for that left tuple alone; the tuples of one left
\* tuple are its matching right rows in ascending order, of their key-first
\* projection for the materialized strategy and of the scan's key for the
\* prefix strategy, each appended to the left tuple and cut by the join's
\* elimination.
C22_JoinLeftDrivenOrder ==
    (/\ stage = "iterated"
     /\ tree.kind = "Join"
     /\ join_type(tree) \in MatJoinTypes \cup PrefixJoinTypes
     /\ out.err = "none")
    => LET L == Iter(tree.left, deltaRule).rows
           eliminate_indices == get_eliminate_indices(JoinBindings(tree), tree.to_eliminate)
           only == [i \in 1..Len(L) |-> Iter(LeftOnly(tree, L[i]), deltaRule)]
       IN /\ \A i \in 1..Len(L) :
                LET o == only[i]
                    a == Iter(LeftAlone(tree, L[i]), deltaRule)
                    rows == a.rows
                IN /\ o.err = "none"
                   /\ Len(o.rows) > 1 =>
                        /\ a.err = "none"
                        /\ \A k \in 1..Len(rows) : SubSeq(rows[k], 1, Len(L[i])) = L[i]
                        /\ AscendingRight(tree, rows, Len(L[i]))
                        /\ o.rows = [k \in 1..Len(rows) |->
                                        eliminate_from_tuple(rows[k], eliminate_indices)]
          /\ out.rows = Flatten([i \in 1..Len(L) |-> only[i].rows], 1)

\* l[x] joined with s2[k1, k2, w] on x = k2 by the materialized strategy: the
\* two rows of x = 1 come before the two rows of x = 2, each pair in the order
\* of (k2, k1, w)
C22_Witness ==
    /\ stage = "iterated"
    /\ tree.kind = "Join"
    /\ join_type(tree) = "stored_mat_join"
    /\ tree.joiner = [left_keys |-> <<"x">>, right_keys |-> <<"k2">>]
    /\ out = OkS(<<<<Num(1), Num(1), Num(1), Num(1)>>, <<Num(1), Num(2), Num(1), Num(3)>>,
                   <<Num(2), Num(1), Num(2), Num(2)>>, <<Num(2), Num(2), Num(2), Num(9)>>>>)

\* the root is a prefix join over a scan with filters and has been iterated
FilteredPrefixJoin ==
    /\ stage = "iterated"
    /\ RunsPrefixClosure(tree)
    /\ tree.right.filters # <<>>

\* C23 as stated: in a prefix join over a scan with filters the flag is set
\* once the first left tuple has been processed and stays set, compute_bounds
\* is not run for any later left tuple, and every later left tuple is scanned
\* as the first was.
C23_RangeCheckLatches ==
    FilteredPrefixJoin
    => /\ \A i \in 1..Len(scanLog) : scanLog[i].skip_range_check
       /\ \A i \in 2..Len(scanLog) :
             ~scanLog[i].checked /\ scanLog[i].bounded = scanLog[1].bounded

\* C23: in a prefix join over a scan with filters compute_bounds is run for
\* the first left tuple and every left tuple is scanned as the first was,
\* bounded when the bounds are not trivial; with trivial bounds the flag is
\* set by the first left tuple, stays set, and compute_bounds is not run
\* again; with bounds that are not trivial the flag is never set and
\* compute_bounds is run for every left tuple.
C23_RangeCheckStrategy ==
    FilteredPrefixJoin
    => LET ji == join_indices(tree.joiner, bindings_after_eliminate(tree.left),
                              bindings_after_eliminate(tree.right))
       IN /\ Len(scanLog) = Len(Iter(tree.left, deltaRule).rows)
          /\ \A i \in 1..Len(scanLog) :
                /\ scanLog[i].bounded = UseBounds(tree.right, ji)
                /\ scanLog[i].skip_range_check = ~scanLog[1].bounded
                /\ scanLog[i].checked = (i = 1 \/ scanLog[1].bounded)

\* a prefix join whose scan has a filter with bounds has scanned three left
\* tuples, each with the bounded scan and each after a run of compute_bounds
C23_Witness ==
    /\ FilteredPrefixJoin
    /\ Len(scanLog) = 3
    /\ \A i \in 1..3 : scanLog[i].bounded /\ scanLog[i].checked /\ ~scanLog[i].skip_range_check

\* the expressions of node `n` are resolved and compiled: a Filter or scan
\* node has one bytecode per filter, that of the resolved filter; a
\* Unification has the bytecode of its resolved expression
NodeCompiled(n) ==
    CASE n.kind \in ScanKinds \cup {"Filter"} ->
            /\ Len(n.filters_bytecodes) = Len(n.filters)
            /\ \A i \in 1..Len(n.filters) :
                  /\ ExprResolved(n.filters[i])
                  /\ n.filters_bytecodes[i] = ExprCompile(n.filters[i])
      [] n.kind = "Unification" ->
            /\ ExprResolved(n.expr)
            /\ n.expr_bytecode = ExprCompile(n.expr)
      [] OTHER -> TRUE

\* C24: after fill_binding_indices_and_compile has run once on the root and
\* succeeded, every filter and unification expression of every node of the
\* tree, the right subtree of a NegJoin included, is resolved to positions and
\* compiled, each Filter or scan node having exactly one bytecode per filter;
\* when the pass has failed some expression of the tree is not resolved.
C24_EveryExpressionCompiled ==
    /\ stage \in {"compiled", "iterated"}
          => \A i \in 1..Len(Nodes(tree)) : NodeCompiled(Nodes(tree)[i])
    /\ (stage = "failed" /\ tree # NoNode)
          => \E i \in 1..Len(Nodes(tree)) : ~NodeCompiled(Nodes(tree)[i])

\* the elimination set of node `r` holds, of the bindings `own`, exactly
\* those that are not in `u`
EliminatesUnused(r, own, u) == \A b \in own : b \in r.to_eliminate <=> b \notin u

RECURSIVE PlannedFor(_, _, _)
\* the tree `r`, visited by eliminate_temp_vars with the set `u`, is planned
\* as stated: every node with an elimination set eliminates of its own
\* bindings (all of them when `withOwn`, else a Unification's new binding is
\* left out) those not in the set it received, and its children were visited
\* with that set enlarged by what the node itself reads
PlannedFor(r, u, withOwn) ==
    CASE r.kind = "Fixed" -> EliminatesUnused(r, Range(r.bindings), u)
      [] r.kind \in ScanKinds -> TRUE
      [] r.kind = "Reorder" -> PlannedFor(r.relation, u, withOwn)
      [] r.kind = "Join" ->
            /\ EliminatesUnused(r, Range(bindings_before_eliminate(r)), u)
            /\ PlannedFor(r.left,
                          u \cup Range(r.joiner.left_keys)
                            \cup (IF r.right.kind = "TempStore"
                                  THEN FiltersBindings(r.right.filters, 1) ELSE {}),
                          withOwn)
            /\ PlannedFor(r.right, u \cup Range(r.joiner.right_keys), withOwn)
      [] r.kind = "NegJoin" ->
            /\ EliminatesUnused(r, Range(bindings_before_eliminate(r)), u)
            /\ PlannedFor(r.left, u \cup Range(r.joiner.left_keys), withOwn)
      [] r.kind = "Filter" ->
            /\ EliminatesUnused(r, Range(bindings_before_eliminate(r)), u)
            /\ PlannedFor(r.parent, u \cup FiltersBindings(r.filters, 1), withOwn)
      [] r.kind = "Unification" ->
            /\ EliminatesUnused(r, Range(bindings_before_eliminate(r))
                                      \ (IF withOwn THEN {} ELSE {r.binding}), u)
            /\ PlannedFor(r.parent, u \cup ExprBindings(r.expr), withOwn)
      [] OTHER -> TRUE

\* C25: after eliminate_temp_vars(used) the elimination set of every Fixed,
\* Join, NegJoin, Filter and Unification node holds exactly those of the
\* node's own bindings, the new binding of a Unification included, that are
\* not in the set the node received, the children being visited with the set
\* enlarged by the join keys, the filter's variables or the unification
\* expression's variables; so every binding the root keeps is in `used`.
C25_EliminationSets ==
    (elimRuns >= 1 /\ tree # NoNode)
    => /\ PlannedFor(tree, used, TRUE)
       /\ eliminate_set(tree) # {} => Range(bindings_after_eliminate(tree)) \subseteq used

\* the same with the new binding of a Unification set aside
C25_ExceptOwnBinding ==
    (elimRuns >= 1 /\ tree # NoNode) => PlannedFor(tree, used, FALSE)

\* the thread is at a Return statement and takes its step
ReturnStep == AtStmt("Return") /\ poison' = poison

\* what running one item of a Return gives: [ok, res, tx]
ItemRun(item, t) ==
    IF item.side = "Left" THEN execute_single_program(item.name, t)
    ELSE [ok |-> get_relation(item.name, t).ok, res |-> get_relation(item.name, t).res,
          tx |-> t]

RECURSIVE TxBefore(_, _, _)
\* the transaction as item i of `returns` finds it: the items after it have run
TxBefore(returns, i, t) ==
    IF i = Len(returns) THEN t
    ELSE ItemRun(returns[i + 1], TxBefore(returns, i + 1, t)).tx

RECURSIVE ChainFrom(_, _, _)
\* the result of item i with the results of the items after it as its chain
ChainFrom(returns, i, t) ==
    [ItemRun(returns[i], TxBefore(returns, i, t)).res EXCEPT
        !.next = IF i = Len(returns) THEN <<>> ELSE <<ChainFrom(returns, i + 1, t)>>]

\* C26: a Return with items r1..rn that all succeed ends the whole imperative
\* program from any depth of nested If and Loop: no frame is left, so no
\* statement after it runs, the transaction is committed, and the result is
\* r1's result with the results of r2..rn, in that order, as its chain of
\* `next`; a Return with no items gives the empty result.
C26_ReturnEndsProgram ==
    [][ReturnStep
       => LET returns == Top.ps[Top.pc].returns
          IN IF \A i \in 1..Len(returns) :
                    ItemRun(returns[i], TxBefore(returns, i, tx)).ok
             THEN /\ status'.state = "done"
                  /\ frames' = <<>>
                  /\ status'.result = IF returns = <<>> THEN DefaultRows
                                      ELSE ChainFrom(returns, 1, tx)
                  /\ db' = [cnt |-> tx'.cnt]
             ELSE /\ status'.state = "error"
                  /\ db' = db]_vars

\* a Return of three items inside an If inside a Loop has ended the program:
\* the result has a chain of two further results, the last without a next
C26_Witness ==
    /\ status.state = "done"
    /\ Len(status.ps) = 2
    /\ status.ps[1].kind = "Loop"
    /\ status.result.next # <<>>
    /\ status.result.next[1].rows = <<<<Num(7)>>>>
    /\ status.result.next[1].next # <<>>
    /\ status.result.next[1].next[1].next = <<>>
    /\ db.cnt = 2

\* the connections a statement of thread t is still prepared on
StatementsOn(t) == {sqliteTx[t].stmts[idx] : idx \in 0..(N_CACHED_QUERIES - 1)} \ {0}

\* the connections lying in the pool
Pooled == {pool[i] : i \in 1..Len(pool)}

\* C27: a connection on which a transaction's cached statements still exist
\* is not in the pool and not in the hands of another transaction: the
\* statements of an ending SqliteTx are dropped before its connection is
\* put back.
C27_StatementsDroppedBeforePooling ==
    \A t \in SqlThreads :
        /\ StatementsOn(t) \cap Pooled = {}
        /\ \A u \in SqlThreads \ {t} : sqliteTx[u].conn \notin StatementsOn(t)

\* the part of C27 about the hand-over: no transaction has got a connection
\* on which another one's statements still exist
C27_NoTakeWhileStatementsExist ==
    \A t \in SqlThreads :
        \A u \in SqlThreads \ {t} : sqliteTx[u].conn \notin StatementsOn(t)

\* the tuples of the stream `s` are all as wide as the bindings of `n` after
\* elimination
WidthAsBindings(n, s) ==
    \A k \in 1..Len(s.rows) : Len(s.rows[k]) = Len(bindings_after_eliminate(n))

\* C28: in a planned tree every node of every kind emits tuples with exactly
\* as many columns as its bindings_after_eliminate() lists; in particular an
\* InlineFixed node with a non-empty elimination set emits its rows without
\* the eliminated columns.
C28_EmittedWidthMatchesBindings ==
    stage = "iterated"
    => \A i \in 1..Len(Nodes(tree)) :
          LET s == Iter(Nodes(tree)[i], deltaRule)
          IN s.err = "none" => WidthAsBindings(Nodes(tree)[i], s)

\* the part of C28 that holds: the nodes that are neither an inline relation
\* with something to eliminate, nor above one, nor a join against an inline
\* relation of several rows, emit tuples as wide as their bindings
C28_ExceptInlineFixed ==
    stage = "iterated"
    => \A i \in 1..Len(Nodes(tree)) :
          LET n == Nodes(tree)[i]
              s == Iter(n, deltaRule)
          IN (/\ s.err = "none"
              /\ \A k \in 1..Len(Nodes(n)) :
                    /\ Nodes(n)[k].kind = "Fixed" => Nodes(n)[k].to_eliminate = {}
                    /\ (Nodes(n)[k].kind = "Join" /\ Nodes(n)[k].right.kind = "Fixed")
                          => Len(Nodes(n)[k].right.data) <= 1)
             => WidthAsBindings(n, s)

\* the running thread executes the statement it is at, of one of `kinds`, and
\* the statement completes without error
Completes(kinds) ==
    /\ \E k \in kinds : AtStmt(k)
    /\ poison' = poison
    /\ status'.state = "running"

\* the branch of an If has run to its end
IfEnds ==
    /\ status.state = "running"
    /\ Top.kind = "if"
    /\ Top.pc > Len(Top.ps)
    /\ poison' = poison
    /\ status'.state = "running"

\* a Break is executed and a Loop takes it
LoopLeft == Completes({"Break"})

\* the next statement of the block at depth `d` is the one to run
NextOfBlock(d) ==
    /\ frames'[d].ps = frames[d].ps
    /\ frames'[d].pc = frames[d].pc + 1

\* C29: after a Program, IgnoreErrorProgram, TempDebug or TempSwap statement
\* that completes without error the next statement of the same block is the
\* one executed, and so it is after an If whose branch has run to its end
\* and after a Loop that a Break has left; a block that has run to its end
\* at the top level gives the result of its last statement.
C29_ProgramOrder ==
    [][/\ (Completes({"Program", "IgnoreErrorProgram", "TempDebug", "TempSwap"})
             => (Len(frames') = Len(frames) /\ NextOfBlock(Len(frames))))
       /\ (IfEnds => (Len(frames') = Len(frames) - 1 /\ NextOfBlock(Len(frames'))))
       /\ (LoopLeft => (/\ Len(frames') < Len(frames)
                        /\ frames[Len(frames') + 1].kind = "loop"
                        /\ NextOfBlock(Len(frames'))))]_vars

\* the part of C29 that holds: every statement but TempSwap
C29_ExceptTempSwap ==
    [][/\ (Completes({"Program", "IgnoreErrorProgram", "TempDebug"})
             => (Len(frames') = Len(frames) /\ NextOfBlock(Len(frames))))
       /\ (IfEnds => (Len(frames') = Len(frames) - 1 /\ NextOfBlock(Len(frames'))))
       /\ (LoopLeft => (/\ Len(frames') < Len(frames)
                        /\ frames[Len(frames') + 1].kind = "loop"
                        /\ NextOfBlock(Len(frames'))))]_vars

\* the weight of the edge from u to v, of which a graph has at most one
Weight(edges, u, v) ==
    LET hits == {i \in 1..Len(edges[u]) : edges[u][i][1] = v}
    IN edges[u][CHOOSE i \in hits : TRUE][2]

\* p follows existing edges
FollowsEdges(edges, p) ==
    \A k \in 1..(Len(p) - 1) : \E i \in 1..Len(edges[p[k]]) : edges[p[k]][i][1] = p[k + 1]

RECURSIVE PathCost(_, _)
\* the weights along p summed
PathCost(edges, p) ==
    IF Len(p) <= 1 THEN 0
    ELSE PathCost(edges, SubSeq(p, 1, Len(p) - 1)) + Weight(edges, p[Len(p) - 1], p[Len(p)])

\* the paths from s to t that visit no node twice; with weights that are not
\* negative a cheapest path is among them
SimplePaths(edges, s, t) ==
    {p \in UNION {[1..n -> DijNodes] : n \in 1..NumNodes} :
        /\ p[1] = s
        /\ p[Len(p)] = t
        /\ \A i, j \in 1..Len(p) : i # j => p[i] # p[j]
        /\ FollowsEdges(edges, p)}

\* the minimum total weight over all paths from s to t, INFINITY without one
MinCost(edges, s, t) ==
    LET costs == {PathCost(edges, p) : p \in SimplePaths(edges, s, t)}
    IN IF costs = {} THEN INFINITY ELSE CHOOSE c \in costs : \A d \in costs : c <= d

\* the cost the result `ret` gives for `target`
CostIn(ret, target) ==
    LET hits == {i \in 1..Len(ret) : ret[i].target = target}
    IN ret[CHOOSE i \in hits : TRUE].cost

\* what dijkstra has returned is right: every goal is listed with the
\* minimum cost and a path of that cost from start to it, or with an
\* infinite cost and no path; the cost is the one found without stopping
\* early; Some(id) gives what the set {id} gives
DijkstraCorrect ==
    dij.pc = "done"
    => /\ [i \in 1..Len(dij.ret) |-> dij.ret[i].target] = goal_iter(dij.goals, NumNodes)
       /\ \A i \in 1..Len(dij.ret) :
            LET e == dij.ret[i]
            IN /\ e.cost = MinCost(dij.edges, dij.start, e.target)
               /\ IF SimplePaths(dij.edges, dij.start, e.target) = {}
                  THEN e.cost = INFINITY /\ e.path = <<>>
                  ELSE /\ e.path # <<>>
                       /\ e.path[1] = dij.start
                       /\ e.path[Len(e.path)] = e.target
                       /\ FollowsEdges(dij.edges, e.path)
                       /\ PathCost(dij.edges, e.path) = e.cost
               /\ e.cost = CostIn(dijkstra(dij.edges, dij.start, NoGoal), e.target)
       /\ dij.goals.kind = "option"
            => dij.ret = dijkstra(dij.edges, dij.start, SetGoal(dij.goals.nodes))

\* C30: on a graph whose weights are not negative dijkstra terminates, and it
\* returns for every goal the minimum total weight over all paths from start
\* with a path from start to the goal along existing edges of that weight,
\* or an infinite cost and an empty path for a goal out of reach; stopping
\* early when all goals are visited changes no cost, and Some(id) gives the
\* result of the set {id}.
C30_DijkstraShortestPaths == []DijkstraCorrect /\ <>(dij.pc = "done")

\* dijkstra from 0 with the single goal Some(2) has stopped early, an entry
\* out of date still in the heap, and returns the path over node 1, which is
\* cheaper than the edge from 0 to 2
C30_Witness ==
    /\ dij.pc = "done"
    /\ dij.goals = OptionGoal({2})
    /\ dij.start = 0
    /\ dij.st.broke
    /\ dij.st.heap = {HeapState(1, 2)}
    /\ Len(dij.ret) = 1
    /\ dij.ret[1].path = <<0, 1, 2>>
    /\ dij.ret[1].cost = 0

====
